---- MODULE Spec2Model ----
(***************************************************************************)
(* Model of go-astiffmpeg: the option structs that render themselves into  *)
(* the argument vector of an ffmpeg command (options.go), the numeric      *)
(* shorthand type Number, and FFMpeg.Exec which builds the command, starts *)
(* the stderr ticker and runs the binary.                                  *)
(*                                                                         *)
(* Go values are represented as follows.                                   *)
(*   string          a TLA+ string; a string that the code inspects byte   *)
(*                   by byte (numberFromString) is a sequence of one-      *)
(*                   character strings                                     *)
(*   *T              <<>> for nil, <<v>> for a pointer to v                *)
(*   []T             a sequence                                            *)
(*   interface{}     a record [type |-> T, T |-> the value] for the dynamic*)
(*                   type T: [type |-> "int", int |-> 3]                   *)
(*   error           [nil |-> TRUE, msg |-> ""] or [nil |-> FALSE, msg]    *)
(*   exec.Cmd        [Args |-> sequence of strings, Env |-> same]          *)
(***************************************************************************)
EXTENDS Integers, Sequences, FiniteSets, TLC

VARIABLES
    pc,        \* position of the call under way
    call,      \* [fn |-> name, arg |-> receiver/argument] of a direct call
    cmd,       \* the exec.Cmd being adapted: [Args, Env]
    err,       \* the error returned by the call
    ret,       \* the values returned: by a pure function, or by Exec
    inputIdx,  \* Exec: idx, the index of the loop over the inputs
    proc,      \* Exec: the external process started by cmd.Run
    pipe,      \* Exec: the chunks the process wrote to its stderr that are
               \* not yet copied to bufErr
    bufErr,    \* Exec: the bytes.Buffer cmd.Stderr points to, as chunks
    ticker,    \* Exec: the time.Ticker t
    task,      \* Exec: the goroutine that ranges over t.C
    ctxDone    \* Exec: whether the caller's context is cancelled

execVars == <<inputIdx, proc, pipe, bufErr, ticker, task, ctxDone>>

vars == <<pc, call, cmd, err, ret, inputIdx, proc, pipe, bufErr, ticker, task, ctxDone>>

\* no process: cmd.Run was not called.  copying: the goroutine of os/exec
\* that copies the stderr of the process is inside bufErr.Write
NoProcess ==
    [state |-> "none", starts |-> 0, argv |-> <<>>, code |-> 0, written |-> <<>>,
     copying |-> FALSE]

\* no time.Ticker was created
NoTicker == [state |-> "none", C |-> 0, ticks |-> 0]

\* no goroutine was started
NoTask == [state |-> "none", calls |-> 0, seen |-> <<>>, during |-> ""]

\* the state of the variables of Exec when Exec is not called
ExecIdle ==
    /\ inputIdx = 0
    /\ proc = NoProcess
    /\ pipe = <<>>
    /\ bufErr = <<>>
    /\ ticker = NoTicker
    /\ task = NoTask
    /\ ctxDone = FALSE

(***************************************************************************)
(* Generic helpers                                                         *)
(***************************************************************************)
NilErr == [nil |-> TRUE, msg |-> ""]

Errorf(m) == [nil |-> FALSE, msg |-> m]

\* fmt.Errorf("<prefix>: %w", e)
Wrap(prefix, e) == Errorf(prefix \o ": " \o (IF e.nil THEN "%!w(<nil>)" ELSE e.msg))

\* cmd.Args = append(cmd.Args, ...)
AppendArgs(c, s) == [c EXCEPT !.Args = @ \o s]

\* cmd.Env = append(cmd.Env, ...)
AppendEnv(c, s) == [c EXCEPT !.Env = @ \o s]

\* &exec.Cmd{}
EmptyCmd == [Args |-> <<>>, Env |-> <<>>]

NoCall == [fn |-> "", arg |-> <<>>]

\* v := x; F(v): the value of x is computed once and then used by F
Let(x, F(_)) == CHOOSE y \in {F(v) : v \in {x}} : TRUE

(***************************************************************************)
(* LogOptions and GlobalOptions                                            *)
(***************************************************************************)
LogLevelFatal == "fatal"

LogOptions_adaptCmd(o, c) ==
    LET c1 == IF o.Color # <<>>
              THEN IF o.Color[1]
                   THEN AppendEnv(c, <<"AV_LOG_FORCE_COLOR=1">>)
                   ELSE AppendEnv(c, <<"AV_LOG_FORCE_NOCOLOR=1">>)
              ELSE c
    IN  IF Len(o.Level) > 0
        THEN LET v == (IF o.Repeated THEN "repeat+" ELSE "") \o o.Level
             IN  AppendArgs(c1, <<"-loglevel", v>>)
        ELSE c1

\* GlobalOptions.adaptCmd with the two branches of Overwrite exchanged
GlobalOptions_adaptCmd_swapYN(o, c) ==
    LET c1 == AppendArgs(c, <<"-hide_banner">>)
        c2 == IF o.Log # <<>> THEN LogOptions_adaptCmd(o.Log[1], c1) ELSE c1
        c3 == IF o.Overwrite # <<>>
              THEN IF o.Overwrite[1]
                   THEN AppendArgs(c2, <<"-n">>)
                   ELSE AppendArgs(c2, <<"-y">>)
              ELSE c2
        c4 == IF o.NoStats THEN AppendArgs(c3, <<"-nostats">>) ELSE c3
    IN  IF o.Report THEN AppendArgs(c4, <<"-report">>) ELSE c4

GlobalOptions_adaptCmd(o, c) ==
    LET c1 == AppendArgs(c, <<"-hide_banner">>)
        c2 == IF o.Log # <<>> THEN LogOptions_adaptCmd(o.Log[1], c1) ELSE c1
        c3 == IF o.Overwrite # <<>>
              THEN IF o.Overwrite[1]
                   THEN AppendArgs(c2, <<"-y">>)
                   ELSE AppendArgs(c2, <<"-n">>)
              ELSE c2
        c4 == IF o.NoStats THEN AppendArgs(c3, <<"-nostats">>) ELSE c3
    IN  IF o.Report THEN AppendArgs(c4, <<"-report">>) ELSE c4

\* the values a *bool can take
PtrBool == {<<>>, <<TRUE>>, <<FALSE>>}

LogOptionsSet == [Color : PtrBool, Level : {"", LogLevelFatal}, Repeated : BOOLEAN]

GlobalOptionsSet ==
    [Log : {<<>>} \cup {<<l>> : l \in LogOptionsSet},
     NoStats : BOOLEAN, Overwrite : PtrBool, Report : BOOLEAN]

\* GlobalOptions{}
GlobalOptionsZero == [Log |-> <<>>, NoStats |-> FALSE, Overwrite |-> <<>>, Report |-> FALSE]

(***************************************************************************)
(* Direct calls of GlobalOptions.adaptCmd on a fresh command, as           *)
(* TestGlobalOptions makes them                                            *)
(***************************************************************************)
InitGlobal ==
    /\ ExecIdle
    /\ pc = "call"
    /\ \E o \in GlobalOptionsSet : call = [fn |-> "GlobalOptions.adaptCmd", arg |-> o]
    /\ cmd = EmptyCmd
    /\ err = NilErr
    /\ ret = <<>>

CallGlobalAdaptCmd ==
    /\ pc = "call"
    /\ call.fn = "GlobalOptions.adaptCmd"
    /\ cmd' = GlobalOptions_adaptCmd(call.arg, cmd)
    /\ pc' = "done"
    /\ UNCHANGED <<call, err, ret>>
    /\ UNCHANGED execVars

NextGlobal == CallGlobalAdaptCmd

SpecGlobal == InitGlobal /\ [][NextGlobal]_vars

(***************************************************************************)
(* Properties of GlobalOptions.adaptCmd                                    *)
(***************************************************************************)
Range(s) == {s[i] : i \in 1..Len(s)}

GlobalDone == pc = "done" /\ call.fn = "GlobalOptions.adaptCmd"

\* C2: compiling a GlobalOptions value with no fields set produces an empty
\* argument vector and no environment additions ("-hide_banner" is appended
\* only on request).
C2_ZeroGlobalOptionsRenderNothing ==
    (GlobalDone /\ call.arg = GlobalOptionsZero)
        => (cmd.Args = <<>> /\ cmd.Env = <<>>)

\* position of each global flag in the documented order; 0 for a value
GlobalFlagRank(a) ==
    CASE a = "-hide_banner" -> 1
      [] a = "-loglevel"    -> 2
      [] a \in {"-y", "-n"} -> 3
      [] a = "-nostats"     -> 4
      [] a = "-report"      -> 5
      [] OTHER              -> 0

\* C3: the flags GlobalOptions.adaptCmd appends are in the order
\* -hide_banner, -loglevel <[repeat+]level>, -y or -n, -nostats, -report;
\* Overwrite nil gives neither -y nor -n, true gives only -y, false only -n;
\* the log colour only adds AV_LOG_FORCE_COLOR=1 / AV_LOG_FORCE_NOCOLOR=1 to
\* the environment and never touches the argument vector.
C3_GlobalFlagOrder ==
    GlobalDone =>
        LET A == cmd.Args
            o == call.arg
            hasLevel == o.Log # <<>> /\ o.Log[1].Level # ""
            colour == IF o.Log = <<>> THEN <<>> ELSE o.Log[1].Color
        IN  /\ \A i, j \in 1..Len(A) :
                   (i < j /\ GlobalFlagRank(A[i]) > 0 /\ GlobalFlagRank(A[j]) > 0)
                       => GlobalFlagRank(A[i]) < GlobalFlagRank(A[j])
            /\ \A i \in 1..Len(A) :
                   GlobalFlagRank(A[i]) = 0
                       => /\ i > 1
                          /\ A[i-1] = "-loglevel"
                          /\ hasLevel
                          /\ A[i] = (IF o.Log[1].Repeated
                                     THEN "repeat+" \o o.Log[1].Level
                                     ELSE o.Log[1].Level)
            /\ \A i \in 1..Len(A) :
                   A[i] = "-loglevel" => (i < Len(A) /\ GlobalFlagRank(A[i+1]) = 0)
            /\ ("-loglevel" \in Range(A)) <=> hasLevel
            /\ ("-y" \in Range(A)) <=> (o.Overwrite = <<TRUE>>)
            /\ ("-n" \in Range(A)) <=> (o.Overwrite = <<FALSE>>)
            /\ ("-nostats" \in Range(A)) <=> o.NoStats
            /\ ("-report" \in Range(A)) <=> o.Report
            /\ cmd.Env = (IF colour = <<>> THEN <<>>
                          ELSE IF colour[1] THEN <<"AV_LOG_FORCE_COLOR=1">>
                          ELSE <<"AV_LOG_FORCE_NOCOLOR=1">>)

\* every flag present at once, with a colour and Overwrite = false
C3_Witness ==
    /\ GlobalDone
    /\ call.arg.Overwrite = <<FALSE>>
    /\ call.arg.NoStats
    /\ call.arg.Report
    /\ call.arg.Log # <<>>
    /\ call.arg.Log[1].Color = <<TRUE>>
    /\ call.arg.Log[1].Repeated
    /\ cmd.Args = <<"-hide_banner", "-loglevel", "repeat+fatal", "-n", "-nostats", "-report">>

(***************************************************************************)
(* Strings, integers and floats                                            *)
(*                                                                         *)
(* A float64 is modelled by the number it stands for, written as           *)
(*     [m |-> mantissa, e |-> decimal exponent, x2 |-> binary exponent,    *)
(*      up |-> BOOLEAN]                                                    *)
(* for m * 2^x2 / 10^e (the products of Number.float64 exceed the integers *)
(* of the checker, the exponents keep them exact).  A float parsed from    *)
(* text or given in an option has x2 = 0 and e >= 0: the decimal it was    *)
(* written as.  up tells on which side of that decimal the nearest         *)
(* binary64 value lies; strconv.FormatFloat rounds the binary value, so up *)
(* decides the result exactly when the decimal is halfway between two      *)
(* printable values.                                                       *)
(***************************************************************************)
RECURSIVE Pow(_, _)
Pow(b, n) == IF n = 0 THEN 1 ELSE b * Pow(b, n - 1)

\* strconv.Itoa
Itoa(n) == ToString(n)

RECURSIVE DigitChars(_)
\* the decimal digits of a natural number, one character each
DigitChars(n) == IF n < 10 THEN <<ToString(n)>> ELSE DigitChars(n \div 10) \o <<ToString(n % 10)>>

RECURSIVE PadZeros(_, _)
\* left-pads a digit sequence with "0" to the width w
PadZeros(cs, w) == IF Len(cs) >= w THEN cs ELSE PadZeros(<<"0">> \o cs, w)

RECURSIVE Str(_)
\* string(chars): the string made of a sequence of characters
Str(cs) == IF cs = <<>> THEN "" ELSE Head(cs) \o Str(Tail(cs))

Float(m, e) == [m |-> m, e |-> e, x2 |-> 0, up |-> FALSE]

\* strconv.FormatFloat(f, 'f', prec, 64) as a character sequence (f >= 0)
FormatFloatChars(f, prec) ==
    LET scaled == IF f.e <= prec
                  THEN f.m * Pow(10, prec - f.e)
                  ELSE LET unit == Pow(10, f.e - prec)
                           q == f.m \div unit
                           r == f.m % unit
                       IN  IF 2 * r > unit \/ (2 * r = unit /\ f.up) THEN q + 1 ELSE q
        ip == scaled \div Pow(10, prec)
        fp == scaled % Pow(10, prec)
    IN  DigitChars(ip) \o (IF prec > 0 THEN <<".">> \o PadZeros(DigitChars(fp), prec) ELSE <<>>)

FormatFloat(f, prec) == Str(FormatFloatChars(f, prec))

RECURSIVE TrimZeros(_)
\* for o[len(o)-1] == '0' { o = o[:len(o)-1] }
TrimZeros(cs) == IF cs[Len(cs)] = "0" THEN TrimZeros(SubSeq(cs, 1, Len(cs) - 1)) ELSE cs

\* strings.TrimSuffix(o, suffix) for a one-character suffix
TrimSuffixChar(cs, ch) ==
    IF Len(cs) > 0 /\ cs[Len(cs)] = ch THEN SubSeq(cs, 1, Len(cs) - 1) ELSE cs

(***************************************************************************)
(* Number                                                                  *)
(***************************************************************************)
\* Number.string with the "B" of a byte multiple written before the "i" of a
\* binary multiple
Number_string_byteFirst(n) ==
    LET o == CASE n.Value.type = "float64" ->
                      Str(TrimSuffixChar(TrimZeros(FormatFloatChars(n.Value.float64, 3)), "."))
               [] n.Value.type = "int" -> Itoa(n.Value.int)
               [] OTHER -> ""
    IN  IF n.Value.type \notin {"float64", "int"} THEN ""
        ELSE o \o n.Prefix \o (IF n.ByteMultiple THEN "B" ELSE "")
               \o (IF n.BinaryMultiple THEN "i" ELSE "")

Number_string(n) ==
    LET o == CASE n.Value.type = "float64" ->
                      Str(TrimSuffixChar(TrimZeros(FormatFloatChars(n.Value.float64, 3)), "."))
               [] n.Value.type = "int" -> Itoa(n.Value.int)
               [] OTHER -> ""
    IN  IF n.Value.type \notin {"float64", "int"} THEN ""
        ELSE o \o n.Prefix \o (IF n.BinaryMultiple THEN "i" ELSE "")
               \o (IF n.ByteMultiple THEN "B" ELSE "")

(***************************************************************************)
(* StreamSpecifier, Ratio, Scale, FilterOptions                            *)
(***************************************************************************)
StreamSpecifierTypeAudio == "a"

StreamSpecifierTypeVideo == "v"

\* StreamSpecifier.string with the Type and Index taking precedence over
\* the Name
StreamSpecifier_string_typeFirst(s) ==
    IF Len(s.Type) > 0 \/ s.Index # <<>>
    THEN LET o1 == IF Len(s.Type) > 0 THEN s.Type ELSE ""
         IN  IF s.Index # <<>>
             THEN (IF Len(s.Type) > 0 THEN o1 \o ":" ELSE o1) \o Itoa(s.Index[1])
             ELSE o1
    ELSE s.Name

StreamSpecifier_string(s) ==
    IF Len(s.Name) > 0 THEN s.Name
    ELSE LET o1 == IF Len(s.Type) > 0 THEN s.Type ELSE ""
         IN  IF s.Index # <<>>
             THEN (IF Len(s.Type) > 0 THEN o1 \o ":" ELSE o1) \o Itoa(s.Index[1])
             ELSE o1

\* fmt.Sprintf("%d/%d", ...)
Ratio_string(r) == Itoa(r.Antecedent) \o "/" \o Itoa(r.Consequent)

\* strings.Join
RECURSIVE Join(_, _)
Join(ss, sep) ==
    IF ss = <<>> THEN ""
    ELSE IF Len(ss) = 1 THEN ss[1]
    ELSE ss[1] \o sep \o Join(Tail(ss), sep)

\* Scale.string leaving out a dimension that is unset
Scale_string_omitUnset(s) ==
    LET ss1 == IF s.Height # <<>> THEN <<"h=" \o Itoa(s.Height[1])>> ELSE <<>>
        ss2 == IF s.Width # <<>> THEN ss1 \o <<"w=" \o Itoa(s.Width[1])>> ELSE ss1
    IN  Join(ss2, ":")

Scale_string(s) ==
    LET ss1 == IF s.Height # <<>> THEN <<"h=" \o Itoa(s.Height[1])>> ELSE <<"h=-1">>
        ss2 == IF s.Width # <<>> THEN ss1 \o <<"w=" \o Itoa(s.Width[1])>> ELSE ss1 \o <<"w=-1">>
    IN  Join(ss2, ":")

\* fmt.Sprintf("%s=%s", k, v)
FilterOptions_add(k, v) == k \o "=" \o v

FilterOptions_string(o) ==
    LET i1 == IF o.SAR # <<>> THEN <<FilterOptions_add("setsar", Ratio_string(o.SAR[1]))>> ELSE <<>>
        i2 == IF o.Scale # <<>> THEN i1 \o <<FilterOptions_add("scale", Scale_string(o.Scale[1]))>> ELSE i1
        i3 == IF o.ScaleNPP # <<>>
              THEN i2 \o <<FilterOptions_add("scale_npp", Scale_string(o.ScaleNPP[1]))>> ELSE i2
        i4 == IF o.Select # "" THEN i3 \o <<FilterOptions_add("select", o.Select)>> ELSE i3
    IN  Join(i4, ",")

(***************************************************************************)
(* StreamOption                                                            *)
(***************************************************************************)
\* the result of an adaptCmd that can fail: the command as far as it was
\* adapted, and the error
Ok(c) == [cmd |-> c, err |-> NilErr]

Fail(c, e) == [cmd |-> c, err |-> e]

\* the closures passed to StreamOption.adaptCmd: the type assertion on the
\* value and its rendering.  The %w operand is the enclosing function's err,
\* which is nil whenever a closure runs.
ValueNumber(i) ==
    IF i.type = "Number" THEN [s |-> Number_string(i.Number), err |-> NilErr]
    ELSE [s |-> "", err |-> Wrap("astiffmpeg: value should be a Number", NilErr)]

ValueString(i) ==
    IF i.type = "string" THEN [s |-> i.string, err |-> NilErr]
    ELSE [s |-> "", err |-> Wrap("astiffmpeg: value should be a string", NilErr)]

ValueFilterOptions(i) ==
    IF i.type = "FilterOptions" THEN [s |-> FilterOptions_string(i.FilterOptions), err |-> NilErr]
    ELSE [s |-> "", err |-> Wrap("astiffmpeg: value should be a FilterOptions", NilErr)]

ValueInt(i) ==
    IF i.type = "int" THEN [s |-> Itoa(i.int), err |-> NilErr]
    ELSE [s |-> "", err |-> Wrap("astiffmpeg: value should be an int", NilErr)]

\* fn(o.Value) for the closure that goes with the flag
CallFn(name, i) ==
    CASE name \in {"-b", "-maxrate", "-minrate"} -> ValueNumber(i)
      [] name \in {"-codec", "-c"}              -> ValueString(i)
      [] name = "-filter"                       -> ValueFilterOptions(i)
      [] name \in {"-q", "-frames"}             -> ValueInt(i)

StreamOption_adaptCmd(o, c, name) ==
    LET f == IF o.Stream # <<>> THEN name \o ":" \o StreamSpecifier_string(o.Stream[1]) ELSE name
    IN  Let(CallFn(name, o.Value), LAMBDA r :
            IF ~r.err.nil
            THEN Fail(c, Wrap("astiffmpeg: adapting cmd for stream option " \o name \o " failed", r.err))
            ELSE Ok(AppendArgs(c, <<f, r.s>>)))

RECURSIVE AdaptStreamOptions_lastIndex(_, _, _, _)
\* the loop over a repeatable field, reporting the last index of the list
\* instead of the index of the failing entry
AdaptStreamOptions_lastIndex(list, idx, c, name) ==
    IF idx >= Len(list) THEN Ok(c)
    ELSE Let(StreamOption_adaptCmd(list[idx + 1], c, name), LAMBDA r :
             IF ~r.err.nil
             THEN Fail(r.cmd, Wrap("astiffmpeg: adapting cmd for " \o name \o " option #"
                                       \o Itoa(Len(list) - 1) \o " failed", r.err))
             ELSE AdaptStreamOptions_lastIndex(list, idx + 1, r.cmd, name))

RECURSIVE AdaptStreamOptions(_, _, _, _)
\* for idx, ro := range list { if err = ro.adaptCmd(cmd, name, fn); err != nil
\*     { err = fmt.Errorf("... for <name> option #%d failed: %w", idx, err); return } }
\* from the zero-based index idx on
AdaptStreamOptions(list, idx, c, name) ==
    IF idx >= Len(list) THEN Ok(c)
    ELSE Let(StreamOption_adaptCmd(list[idx + 1], c, name), LAMBDA r :
             IF ~r.err.nil
             THEN Fail(r.cmd, Wrap("astiffmpeg: adapting cmd for " \o name \o " option #"
                                       \o Itoa(idx) \o " failed", r.err))
             ELSE AdaptStreamOptions(list, idx + 1, r.cmd, name))

(***************************************************************************)
(* EncodingOptions                                                         *)
(***************************************************************************)
\* if p != nil { cmd.Args = append(cmd.Args, flag, strconv.Itoa(*p)) }
ArgPtrInt(c, p, flag) == IF p # <<>> THEN AppendArgs(c, <<flag, Itoa(p[1])>>) ELSE c

\* if p != nil { cmd.Args = append(cmd.Args, flag, strconv.FormatFloat(*p, 'f', prec, 64)) }
ArgPtrFloat(c, p, flag, prec) ==
    IF p # <<>> THEN AppendArgs(c, <<flag, FormatFloat(p[1], prec)>>) ELSE c

\* if len(v) > 0 { cmd.Args = append(cmd.Args, flag, v) }
ArgString(c, v, flag) == IF Len(v) > 0 THEN AppendArgs(c, <<flag, v>>) ELSE c

RECURSIVE BracketAll(_)
\* for _, i := range streams { v += "[" + i.string() + "]" }
BracketAll(streams) ==
    IF streams = <<>> THEN ""
    ELSE "[" \o StreamSpecifier_string(Head(streams)) \o "]" \o BracketAll(Tail(streams))

ComplexFilterOption_string(cf) ==
    BracketAll(cf.InputStreams) \o Join(cf.Filters, ",") \o BracketAll(cf.OutputStreams)

ArgComplexFilter(c, o) ==
    IF Len(o.ComplexFilter) > 0
    THEN AppendArgs(c, <<"-filter_complex", o.ComplexFilter>>)
    ELSE IF Len(o.ComplexFilters) > 0
    THEN AppendArgs(c, <<"-filter_complex",
                         Join([k \in 1..Len(o.ComplexFilters) |->
                                  ComplexFilterOption_string(o.ComplexFilters[k])], ";")>>)
    ELSE c

\* if o.BufSize != nil { cmd.Args = append(cmd.Args, "-bufsize", o.BufSize.string()) }
ArgBufSize(c, p) == IF p # <<>> THEN AppendArgs(c, <<"-bufsize", Number_string(p[1])>>) ELSE c

\* EncodingOptions.adaptCmd with the -minrate loop placed before the -maxrate loop
EncodingOptions_adaptCmd_minrateFirst(o, c) ==
    Let(AdaptStreamOptions(o.Bitrate, 0,
            ArgPtrInt(ArgPtrInt(c, o.AudioSamplerate, "-ar"), o.BFrames, "-bf"), "-b"),
        LAMBDA s1 : IF ~s1.err.nil THEN s1 ELSE
    Let(AdaptStreamOptions(o.Codec, 0,
            ArgBufSize(ArgPtrInt(s1.cmd, o.BStrategy, "-b_strategy"), o.BufSize), "-codec"),
        LAMBDA s2 : IF ~s2.err.nil THEN s2 ELSE
    Let(AdaptStreamOptions(o.Filters, 0,
            ArgPtrInt(ArgPtrFloat(ArgComplexFilter(ArgString(s2.cmd, o.Coder, "-coder"), o),
                                  o.ConstantQuality, "-cq", 3),
                      o.CRF, "-crf"), "-filter"),
        LAMBDA s3 : IF ~s3.err.nil THEN s3 ELSE
    Let(AdaptStreamOptions(o.Minrate, 0,
            ArgPtrFloat(ArgPtrInt(ArgPtrInt(ArgPtrFloat(s3.cmd, o.Framerate, "-r", 3),
                                            o.GOP, "-g"),
                                  o.KeyintMin, "-keyint_min"),
                        o.Level, "-level", 1), "-minrate"),
        LAMBDA s4 : IF ~s4.err.nil THEN s4 ELSE
    Let(AdaptStreamOptions(o.Maxrate, 0, s4.cmd, "-maxrate"),
        LAMBDA s5 : IF ~s5.err.nil THEN s5 ELSE
    Let(AdaptStreamOptions(o.Quality, 0,
            ArgString(ArgString(s5.cmd, o.Preset, "-preset"), o.Profile, "-profile"), "-q"),
        LAMBDA s6 : IF ~s6.err.nil THEN s6 ELSE
    AdaptStreamOptions(o.Frames, 0,
            ArgString(ArgPtrInt(ArgString(s6.cmd, o.RateControl, "-rc"),
                                o.SCThreshold, "-sc_threshold"),
                      o.Tune, "-tune"), "-frames")))))))

\* each loop over a repeatable field returns on its first error; the appends
\* between two loops are written as the command the next loop starts from
EncodingOptions_adaptCmd(o, c) ==
    Let(AdaptStreamOptions(o.Bitrate, 0,
            ArgPtrInt(ArgPtrInt(c, o.AudioSamplerate, "-ar"), o.BFrames, "-bf"), "-b"),
        LAMBDA s1 : IF ~s1.err.nil THEN s1 ELSE
    Let(AdaptStreamOptions(o.Codec, 0,
            ArgBufSize(ArgPtrInt(s1.cmd, o.BStrategy, "-b_strategy"), o.BufSize), "-codec"),
        LAMBDA s2 : IF ~s2.err.nil THEN s2 ELSE
    Let(AdaptStreamOptions(o.Filters, 0,
            ArgPtrInt(ArgPtrFloat(ArgComplexFilter(ArgString(s2.cmd, o.Coder, "-coder"), o),
                                  o.ConstantQuality, "-cq", 3),
                      o.CRF, "-crf"), "-filter"),
        LAMBDA s3 : IF ~s3.err.nil THEN s3 ELSE
    Let(AdaptStreamOptions(o.Maxrate, 0,
            ArgPtrFloat(ArgPtrInt(ArgPtrInt(ArgPtrFloat(s3.cmd, o.Framerate, "-r", 3),
                                            o.GOP, "-g"),
                                  o.KeyintMin, "-keyint_min"),
                        o.Level, "-level", 1), "-maxrate"),
        LAMBDA s4 : IF ~s4.err.nil THEN s4 ELSE
    Let(AdaptStreamOptions(o.Minrate, 0, s4.cmd, "-minrate"),
        LAMBDA s5 : IF ~s5.err.nil THEN s5 ELSE
    Let(AdaptStreamOptions(o.Quality, 0,
            ArgString(ArgString(s5.cmd, o.Preset, "-preset"), o.Profile, "-profile"), "-q"),
        LAMBDA s6 : IF ~s6.err.nil THEN s6 ELSE
    AdaptStreamOptions(o.Frames, 0,
            ArgString(ArgPtrInt(ArgString(s6.cmd, o.RateControl, "-rc"),
                                o.SCThreshold, "-sc_threshold"),
                      o.Tune, "-tune"), "-frames")))))))

(***************************************************************************)
(* The EncodingOptions values the calls are made with                      *)
(***************************************************************************)
\* the largest number of fields of one EncodingOptions that are set
MaxSetFields == 2

\* the largest number of entries of one repeatable field
MaxEntries == 2

NoStream == <<>>

VideoStream == <<[Index |-> <<>>, Name |-> "", Type |-> StreamSpecifierTypeVideo]>>

AudioStream1 == <<[Index |-> <<1>>, Name |-> "", Type |-> StreamSpecifierTypeAudio]>>

NamedStream == [Index |-> <<>>, Name |-> "out", Type |-> ""]

IntValue(n) == [type |-> "int", int |-> n]

StringValue(v) == [type |-> "string", string |-> v]

FloatValue(f) == [type |-> "float64", float64 |-> f]

NumberValue(v, prefix, bin, byte) ==
    [type |-> "Number",
     Number |-> [BinaryMultiple |-> bin, ByteMultiple |-> byte, Prefix |-> prefix, Value |-> v]]

FilterValue(f) == [type |-> "FilterOptions", FilterOptions |-> f]

FilterScale ==
    [SAR |-> <<[Antecedent |-> 1, Consequent |-> 1]>>,
     Scale |-> <<[Height |-> <<>>, Width |-> <<640>>]>>, ScaleNPP |-> <<>>, Select |-> ""]

Number3M == NumberValue(IntValue(3), "M", FALSE, FALSE)

Number1500 == NumberValue(FloatValue(Float(15, 1)), "k", FALSE, FALSE)

\* the entries a repeatable field is filled with: values of the type its
\* closure asserts and a value of another type, with and without a stream
\* specifier
StreamOptionEntries(f) ==
    CASE f = "Bitrate" ->
            {[Stream |-> NoStream, Value |-> Number3M],
             [Stream |-> VideoStream, Value |-> Number1500],
             [Stream |-> AudioStream1, Value |-> IntValue(128)]}
      [] f = "Maxrate" ->
            {[Stream |-> NoStream, Value |-> Number3M],
             [Stream |-> AudioStream1, Value |-> IntValue(128)]}
      [] f = "Minrate" ->
            {[Stream |-> VideoStream, Value |-> Number1500],
             [Stream |-> NoStream, Value |-> StringValue("1M")]}
      [] f = "Codec" ->
            {[Stream |-> VideoStream, Value |-> StringValue("h264")],
             [Stream |-> NoStream, Value |-> IntValue(1)]}
      [] f = "Filters" ->
            {[Stream |-> NoStream, Value |-> FilterValue(FilterScale)],
             [Stream |-> VideoStream, Value |-> StringValue("yadif")]}
      [] f = "Quality" ->
            {[Stream |-> VideoStream, Value |-> IntValue(0)],
             [Stream |-> NoStream, Value |-> StringValue("7")]}
      [] f = "Frames" ->
            {[Stream |-> NoStream, Value |-> IntValue(4)],
             [Stream |-> AudioStream1, Value |-> Number3M]}

RECURSIVE SeqsUpTo(_, _)
\* the non-empty sequences over S of length at most n
SeqsUpTo(S, n) ==
    IF n = 0 THEN {}
    ELSE {<<x>> : x \in S} \cup {Append(q, x) : q \in SeqsUpTo(S, n - 1), x \in S}

RepeatableFields == {"Bitrate", "Codec", "Filters", "Maxrate", "Minrate", "Quality", "Frames"}

EncodingFields ==
    {"AudioSamplerate", "BFrames", "Bitrate", "BStrategy", "BufSize", "Codec", "Coder",
     "ComplexFilter", "ComplexFilters", "ConstantQuality", "CRF", "Filters", "Framerate",
     "Frames", "GOP", "KeyintMin", "Level", "Maxrate", "Minrate", "Preset", "Profile",
     "Quality", "RateControl", "SCThreshold", "Tune"}

\* the zero value of a field
ZeroValue(f) ==
    IF f \in {"Coder", "ComplexFilter", "Preset", "Profile", "RateControl", "Tune"}
    THEN "" ELSE <<>>

\* EncodingOptions{...}: the struct a composite literal denotes; the fields
\* the literal leaves out are zero
EncodingOptions(lit) ==
    [f \in EncodingFields |-> IF f \in DOMAIN lit THEN lit[f] ELSE ZeroValue(f)]

\* the non-zero values a field is set to
SetValues(f) ==
    CASE f \in RepeatableFields -> SeqsUpTo(StreamOptionEntries(f), MaxEntries)
      [] f = "AudioSamplerate" -> {<<44100>>}
      [] f = "BFrames"         -> {<<0>>, <<2>>}
      [] f = "BStrategy"       -> {<<1>>}
      [] f = "BufSize"         -> {<<NumberValue(IntValue(6), "M", FALSE, FALSE).Number>>,
                                   <<NumberValue(StringValue("6M"), "", FALSE, FALSE).Number>>}
      [] f = "Coder"           -> {"cabac"}
      [] f = "ComplexFilter"   -> {"overlay"}
      [] f = "ComplexFilters"  ->
            {<<[Filters |-> <<"hstack", "null">>,
                InputStreams |-> <<VideoStream[1], AudioStream1[1]>>,
                OutputStreams |-> <<NamedStream>>],
               [Filters |-> <<"anull">>, InputStreams |-> <<>>, OutputStreams |-> <<>>]>>}
      [] f = "ConstantQuality" -> {<<Float(23, 0)>>}
      [] f = "CRF"             -> {<<0>>, <<18>>}
      [] f = "Framerate"       -> {<<Float(2997, 2)>>}
      [] f = "GOP"             -> {<<250>>}
      [] f = "KeyintMin"       -> {<<25>>}
      [] f = "Level"           -> {<<Float(3, 0)>>, <<Float(41, 1)>>}
      [] f = "Preset"          -> {"fast"}
      [] f = "Profile"         -> {"main"}
      [] f = "RateControl"     -> {"vbr"}
      [] f = "SCThreshold"     -> {<<40>>}
      [] f = "Tune"            -> {"film"}

RECURSIVE SubsetsUpTo(_, _)
\* the subsets of S with at most n elements
SubsetsUpTo(S, n) ==
    IF n = 0 THEN {{}}
    ELSE LET T == SubsetsUpTo(S, n - 1)
         IN  T \cup {t \cup {x} : t \in T, x \in S}

RECURSIVE LiteralsOf(_)
\* the composite literals that set exactly the fields of F
LiteralsOf(F) ==
    IF F = {} THEN {<<>>}
    ELSE LET f == CHOOSE x \in F : TRUE
         IN  {(f :> v) @@ lit : lit \in LiteralsOf(F \ {f}), v \in SetValues(f)}

(***************************************************************************)
(* Direct calls of EncodingOptions.adaptCmd on a fresh command, as         *)
(* TestEncodingOptions makes them                                          *)
(***************************************************************************)
InitEncoding ==
    /\ ExecIdle
    /\ pc = "call"
    /\ \E F \in SubsetsUpTo(EncodingFields, MaxSetFields) :
          \E lit \in LiteralsOf(F) :
             call = [fn |-> "EncodingOptions.adaptCmd", arg |-> lit]
    /\ cmd = EmptyCmd
    /\ err = NilErr
    /\ ret = <<>>

CallEncodingAdaptCmd ==
    /\ pc = "call"
    /\ call.fn = "EncodingOptions.adaptCmd"
    /\ LET r == EncodingOptions_adaptCmd(EncodingOptions(call.arg), cmd)
       IN  cmd' = r.cmd /\ err' = r.err
    /\ pc' = "done"
    /\ UNCHANGED <<call, ret>>
    /\ UNCHANGED execVars

NextEncoding == CallEncodingAdaptCmd

SpecEncoding == InitEncoding /\ [][NextEncoding]_vars

(***************************************************************************)
(* Properties of EncodingOptions.adaptCmd                                  *)
(***************************************************************************)
EncodingDone == pc = "done" /\ call.fn = "EncodingOptions.adaptCmd"

\* the documented order of the encoding flags, with the field each comes from
\* and the way its value is written
EncodingFlagOrder ==
    << [flag |-> "-ar",             field |-> "AudioSamplerate", kind |-> "int"],
       [flag |-> "-bf",             field |-> "BFrames",         kind |-> "int"],
       [flag |-> "-b",              field |-> "Bitrate",         kind |-> "Number*"],
       [flag |-> "-b_strategy",     field |-> "BStrategy",       kind |-> "int"],
       [flag |-> "-bufsize",        field |-> "BufSize",         kind |-> "Number"],
       [flag |-> "-codec",          field |-> "Codec",           kind |-> "string*"],
       [flag |-> "-coder",          field |-> "Coder",           kind |-> "string"],
       [flag |-> "-filter_complex", field |-> "ComplexFilter",   kind |-> "complex"],
       [flag |-> "-cq",             field |-> "ConstantQuality", kind |-> "float3"],
       [flag |-> "-crf",            field |-> "CRF",             kind |-> "int"],
       [flag |-> "-filter",         field |-> "Filters",         kind |-> "FilterOptions*"],
       [flag |-> "-r",              field |-> "Framerate",       kind |-> "float3"],
       [flag |-> "-g",              field |-> "GOP",             kind |-> "int"],
       [flag |-> "-keyint_min",     field |-> "KeyintMin",       kind |-> "int"],
       [flag |-> "-level",          field |-> "Level",           kind |-> "float1"],
       [flag |-> "-maxrate",        field |-> "Maxrate",         kind |-> "Number*"],
       [flag |-> "-minrate",        field |-> "Minrate",         kind |-> "Number*"],
       [flag |-> "-preset",         field |-> "Preset",          kind |-> "string"],
       [flag |-> "-profile",        field |-> "Profile",         kind |-> "string"],
       [flag |-> "-q",              field |-> "Quality",         kind |-> "int*"],
       [flag |-> "-rc",             field |-> "RateControl",     kind |-> "string"],
       [flag |-> "-sc_threshold",   field |-> "SCThreshold",     kind |-> "int"],
       [flag |-> "-tune",           field |-> "Tune",            kind |-> "string"],
       [flag |-> "-frames",         field |-> "Frames",          kind |-> "int*"] >>

IsRepeatable(e) == e.kind \in {"Number*", "string*", "FilterOptions*", "int*"}

\* the dynamic type the entries of a repeatable flag must have
EntryType(e) ==
    CASE e.kind = "Number*" -> "Number"
      [] e.kind = "string*" -> "string"
      [] e.kind = "FilterOptions*" -> "FilterOptions"
      [] e.kind = "int*" -> "int"

\* the text of a well-typed entry value
EntryText(v) ==
    CASE v.type = "Number" -> Number_string(v.Number)
      [] v.type = "string" -> v.string
      [] v.type = "FilterOptions" -> FilterOptions_string(v.FilterOptions)
      [] v.type = "int" -> ToString(v.int)

\* "-flag[:specifier]", value of one entry
EntryArgs(e, so) ==
    << IF so.Stream = <<>> THEN e.flag
       ELSE e.flag \o ":" \o StreamSpecifier_string(so.Stream[1]),
       EntryText(so.Value) >>

RECURSIVE EntriesArgs(_, _, _)
\* the arguments of the first n entries of a repeatable field
EntriesArgs(e, list, n) ==
    IF n = 0 THEN <<>> ELSE EntriesArgs(e, list, n - 1) \o EntryArgs(e, list[n])

\* what one line of EncodingFlagOrder contributes for the options o
FlagArgs(e, o) ==
    LET v == o[e.field]
    IN  CASE IsRepeatable(e) -> EntriesArgs(e, v, Len(v))
          [] e.kind = "int" -> IF v = <<>> THEN <<>> ELSE <<e.flag, ToString(v[1])>>
          [] e.kind = "float3" -> IF v = <<>> THEN <<>> ELSE <<e.flag, FormatFloat(v[1], 3)>>
          [] e.kind = "float1" -> IF v = <<>> THEN <<>> ELSE <<e.flag, FormatFloat(v[1], 1)>>
          [] e.kind = "Number" -> IF v = <<>> THEN <<>> ELSE <<e.flag, Number_string(v[1])>>
          [] e.kind = "string" -> IF v = "" THEN <<>> ELSE <<e.flag, v>>
          [] e.kind = "complex" ->
                IF v # "" THEN <<e.flag, v>>
                ELSE IF o.ComplexFilters = <<>> THEN <<>>
                ELSE <<e.flag, Join([k \in 1..Len(o.ComplexFilters) |->
                                       ComplexFilterOption_string(o.ComplexFilters[k])], ";")>>

RECURSIVE FlagsArgs(_, _)
\* the contributions of the first n lines of EncodingFlagOrder, in order
FlagsArgs(n, o) ==
    IF n = 0 THEN <<>> ELSE FlagsArgs(n - 1, o) \o FlagArgs(EncodingFlagOrder[n], o)

\* the zero-based indexes of the wrongly typed entries of line n
BadEntries(n, o) ==
    LET e == EncodingFlagOrder[n]
    IN  IF ~IsRepeatable(e) THEN {}
        ELSE {k \in 0..(Len(o[e.field]) - 1) : o[e.field][k + 1].Value.type # EntryType(e)}

Min(S) == CHOOSE x \in S : \A y \in S : x <= y

\* C4: when EncodingOptions.adaptCmd succeeds, the arguments it appended are
\* the flags in the order -ar, -bf, -b*, -b_strategy, -bufsize, -codec*,
\* -coder, -filter_complex, -cq, -crf, -filter*, -r, -g, -keyint_min, -level,
\* -maxrate*, -minrate*, -preset, -profile, -q*, -rc, -sc_threshold, -tune,
\* -frames* (starred ones once per entry, in list order); an absent field
\* contributes nothing and a set one exactly its flag and its value.
C4_EncodingFlagOrder ==
    (EncodingDone /\ err.nil)
        => cmd.Args = FlagsArgs(Len(EncodingFlagOrder), EncodingOptions(call.arg))

\* two repeatable fields with two entries each
C4_Witness ==
    /\ EncodingDone /\ err.nil
    /\ cmd.Args = <<"-b", "3M", "-b:v", "1.5k", "-q:v", "0", "-q:v", "0">>

\* C5: when the first wrongly typed entry met by EncodingOptions.adaptCmd is
\* entry k (zero-based) of a repeatable field, the call fails with an error
\* naming that field's flag and k; the entries before k of that field are
\* rendered, and nothing of entry k, of later entries or of later fields.
C5_TypeMismatchIndex ==
    EncodingDone =>
        LET o == EncodingOptions(call.arg)
        IN  \A n \in 1..Len(EncodingFlagOrder) :
               (BadEntries(n, o) # {} /\ \A j \in 1..(n - 1) : BadEntries(j, o) = {})
                   => LET e == EncodingFlagOrder[n]
                          k == Min(BadEntries(n, o))
                      IN  /\ ~err.nil
                          /\ err.msg = "astiffmpeg: adapting cmd for " \o e.flag
                                           \o " option #" \o ToString(k)
                                           \o " failed: astiffmpeg: adapting cmd for stream option "
                                           \o e.flag
                                           \o " failed: astiffmpeg: value should be "
                                           \o (IF EntryType(e) = "int" THEN "an " ELSE "a ")
                                           \o EntryType(e) \o ": %!w(<nil>)"
                          /\ cmd.Args = FlagsArgs(n - 1, o) \o EntriesArgs(e, o[e.field], k)

\* the second entry of -maxrate is an int: the first entry is rendered, the
\* error names -maxrate and #1, and the -frames entry that follows is not
\* rendered
C5_Witness ==
    /\ EncodingDone /\ ~err.nil
    /\ call.arg = ("Maxrate" :> <<[Stream |-> NoStream, Value |-> Number3M],
                                  [Stream |-> AudioStream1, Value |-> IntValue(128)]>>)
                   @@ ("Frames" :> <<[Stream |-> NoStream, Value |-> IntValue(4)]>>)
    /\ cmd.Args = <<"-maxrate", "3M">>

(***************************************************************************)
(* numberFromString and Number.float64                                     *)
(***************************************************************************)
DigitCharSet == {"0", "1", "2", "3", "4", "5", "6", "7", "8", "9"}

DigitValue(ch) ==
    CASE ch = "0" -> 0 [] ch = "1" -> 1 [] ch = "2" -> 2 [] ch = "3" -> 3 [] ch = "4" -> 4
      [] ch = "5" -> 5 [] ch = "6" -> 6 [] ch = "7" -> 7 [] ch = "8" -> 8 [] ch = "9" -> 9

RECURSIVE DigitsValue(_)
\* the number a sequence of digits denotes
DigitsValue(cs) ==
    IF cs = <<>> THEN 0 ELSE 10 * DigitsValue(SubSeq(cs, 1, Len(cs) - 1)) + DigitValue(cs[Len(cs)])

RECURSIVE Normalize(_)
\* the one representation of a number: m has no factor 2 or 5
Normalize(f) ==
    IF f.m = 0 THEN [f EXCEPT !.e = 0, !.x2 = 0]
    ELSE IF f.m % 10 = 0 THEN Normalize([f EXCEPT !.m = @ \div 10, !.e = @ - 1])
    ELSE IF f.m % 2 = 0 THEN Normalize([f EXCEPT !.m = @ \div 2, !.x2 = @ + 1])
    ELSE IF f.m % 5 = 0 THEN Normalize([f EXCEPT !.m = @ \div 5, !.e = @ - 1, !.x2 = @ - 1])
    ELSE f

RECURSIVE DropFractionZeros(_)
\* the decimal m / 10^e without trailing zeros in its fraction
DropFractionZeros(f) ==
    IF f.e > 0 /\ f.m % 10 = 0 THEN DropFractionZeros([f EXCEPT !.m = @ \div 10, !.e = @ - 1])
    ELSE f

\* strconv.ParseFloat(i, 64) for the characters of the model: digits, at
\* most one point, at least one digit; anything else is a syntax error and
\* yields 0.  up is the side of the decimal the binary value falls on.
ParseFloat(cs, up) ==
    LET points == {k \in 1..Len(cs) : cs[k] = "."}
        wellFormed == /\ \A k \in 1..Len(cs) : cs[k] \in DigitCharSet \cup {"."}
                      /\ Cardinality(points) <= 1
                      /\ \E k \in 1..Len(cs) : cs[k] \in DigitCharSet
    IN  IF ~wellFormed
        THEN [f |-> Float(0, 0),
              err |-> Errorf("strconv.ParseFloat: parsing \"" \o Str(cs) \o "\": invalid syntax")]
        ELSE LET m == DigitsValue(SelectSeq(cs, LAMBDA ch : ch \in DigitCharSet))
                 e == IF points = {} THEN 0 ELSE Len(cs) - (CHOOSE k \in points : TRUE)
             IN  [f |-> DropFractionZeros([m |-> m, e |-> e, x2 |-> 0, up |-> up /\ e > 0]),
                  err |-> NilErr]

\* strings.HasSuffix(i, suffix) for a one-character suffix
HasSuffixChar(cs, ch) == Len(cs) > 0 /\ cs[Len(cs)] = ch

\* Number{}
NumberZero == [BinaryMultiple |-> FALSE, ByteMultiple |-> FALSE, Prefix |-> "", Value |-> [type |-> "nil"]]

\* the result is what the caller observes: the index expression i[len(i)-1]
\* panics when nothing is left of i, otherwise (n, err) is returned
numberFromString(i, up) ==
    LET n1 == IF HasSuffixChar(i, "B") THEN [NumberZero EXCEPT !.ByteMultiple = TRUE] ELSE NumberZero
        i1 == TrimSuffixChar(i, "B")
        n2 == IF HasSuffixChar(i1, "i") THEN [n1 EXCEPT !.BinaryMultiple = TRUE] ELSE n1
        i2 == TrimSuffixChar(i1, "i")
    IN  IF Len(i2) = 0
        THEN [panic |-> TRUE, n |-> n2, err |-> NilErr]
        ELSE LET isPrefix == i2[Len(i2)] \notin DigitCharSet
                 n3 == IF isPrefix THEN [n2 EXCEPT !.Prefix = i2[Len(i2)]] ELSE n2
                 i3 == IF isPrefix THEN SubSeq(i2, 1, Len(i2) - 1) ELSE i2
             IN  Let(ParseFloat(i3, up), LAMBDA r :
                     [panic |-> FALSE, n |-> [n3 EXCEPT !.Value = FloatValue(r.f)], err |-> r.err])

\* strings.ToLower of a prefix
ToLower(p) ==
    CASE p = "K" -> "k" [] p = "M" -> "m" [] p = "G" -> "g" [] p = "T" -> "t" [] p = "P" -> "p"
      [] OTHER -> p

\* o *= 2^p2 * 10^p10
Times(o, p2, p10) == [o EXCEPT !.x2 = @ + p2, !.e = @ - p10]

\* Number.float64 with the byte multiplier left out
Number_float64_noByte(n) ==
    IF n.Value.type \notin {"float64", "int"} THEN Float(0, 0)
    ELSE LET o1 == IF n.Value.type = "float64" THEN n.Value.float64 ELSE Float(n.Value.int, 0)
             p2 == IF n.BinaryMultiple THEN 10 ELSE 0
             p10 == IF n.BinaryMultiple THEN 0 ELSE 3
             l == ToLower(n.Prefix)
         IN  Normalize(CASE l = "k" -> Times(o1, p2, p10)
                         [] l = "m" -> Times(o1, 2 * p2, 2 * p10)
                         [] l = "g" -> Times(o1, 3 * p2, 3 * p10)
                         [] l = "t" -> Times(o1, 4 * p2, 4 * p10)
                         [] l = "p" -> Times(o1, 5 * p2, 5 * p10)
                         [] OTHER -> o1)

\* the multiplier m is 1000 = 2^0 * 10^3 or 1024 = 2^10 * 10^0, and
\* math.Pow(m, k) multiplies its exponents by k
Number_float64(n) ==
    IF n.Value.type \notin {"float64", "int"} THEN Float(0, 0)
    ELSE LET o1 == IF n.Value.type = "float64" THEN n.Value.float64 ELSE Float(n.Value.int, 0)
             o2 == IF n.ByteMultiple THEN Times(o1, 3, 0) ELSE o1
             p2 == IF n.BinaryMultiple THEN 10 ELSE 0
             p10 == IF n.BinaryMultiple THEN 0 ELSE 3
             l == ToLower(n.Prefix)
         IN  Normalize(CASE l = "k" -> Times(o2, p2, p10)
                         [] l = "m" -> Times(o2, 2 * p2, 2 * p10)
                         [] l = "g" -> Times(o2, 3 * p2, 3 * p10)
                         [] l = "t" -> Times(o2, 4 * p2, 4 * p10)
                         [] l = "p" -> Times(o2, 5 * p2, 5 * p10)
                         [] OTHER -> o2)

(***************************************************************************)
(* Calls of numberFromString, Number.float64 and Number.string as          *)
(* TestNumber makes them: a string is parsed and, when that succeeds, the  *)
(* Number is resolved and rendered; or a Number literal is resolved and    *)
(* rendered                                                                *)
(***************************************************************************)
\* the longest string given to numberFromString
MaxLen == 6

\* the characters of those strings: digits, the point, an SI prefix in
\* either case, the two suffixes
Alphabet == {"0", "1", ".", "k", "M", "i", "B"}

NumberValues ==
    {IntValue(3), IntValue(12), FloatValue(Float(12, 0)), FloatValue(Float(15, 1)),
     StringValue("3")}

NumberSet ==
    [BinaryMultiple : BOOLEAN, ByteMultiple : BOOLEAN,
     Prefix : {"", "k", "K", "M", "m", "G", "g", "T", "t", "P", "p", "x"},
     Value : NumberValues]

NoResult == [n |-> <<>>, f |-> <<>>, s |-> <<>>]

InitNumber ==
    /\ ExecIdle
    /\ cmd = EmptyCmd
    /\ err = NilErr
    /\ \/ /\ pc = "call"
          /\ \E len \in 0..MaxLen : \E i \in [1..len -> Alphabet] :
                call = [fn |-> "numberFromString", arg |-> i]
          /\ ret = NoResult
       \/ /\ pc = "parsed"
          /\ \E n \in NumberSet :
                /\ call = [fn |-> "Number{}", arg |-> n]
                /\ ret = [NoResult EXCEPT !.n = <<n>>]

CallNumberFromString ==
    /\ pc = "call"
    /\ call.fn = "numberFromString"
    /\ \E up \in BOOLEAN : \E r \in {numberFromString(call.arg, up)} :
          IF r.panic
          THEN pc' = "panic" /\ UNCHANGED <<ret, err>>
          ELSE pc' = "parsed" /\ ret' = [ret EXCEPT !.n = <<r.n>>] /\ err' = r.err
    /\ UNCHANGED <<call, cmd>>
    /\ UNCHANGED execVars

CallNumberFloat64 ==
    /\ pc = "parsed"
    /\ err.nil
    /\ ret' = [ret EXCEPT !.f = <<Number_float64(ret.n[1])>>]
    /\ pc' = "resolved"
    /\ UNCHANGED <<call, cmd, err>>
    /\ UNCHANGED execVars

CallNumberString ==
    /\ pc = "resolved"
    /\ ret' = [ret EXCEPT !.s = <<Number_string(ret.n[1])>>]
    /\ pc' = "done"
    /\ UNCHANGED <<call, cmd, err>>
    /\ UNCHANGED execVars

NextNumber == CallNumberFromString \/ CallNumberFloat64 \/ CallNumberString

SpecNumber == InitNumber /\ [][NextNumber]_vars

(***************************************************************************)
(* Properties of numberFromString, Number.float64 and Number.string        *)
(***************************************************************************)
\* i without the suffix "B", then without the suffix "i", then without a
\* prefix among k M G T P: the decimal number of a shorthand string
ShorthandDecimal(i) ==
    LET i1 == TrimSuffixChar(i, "B")
        i2 == TrimSuffixChar(i1, "i")
    IN  IF Len(i2) > 0 /\ i2[Len(i2)] \in {"k", "M", "G", "T", "P"}
        THEN SubSeq(i2, 1, Len(i2) - 1) ELSE i2

\* the number of characters before the point
IntegerDigits(d) ==
    IF \E k \in 1..Len(d) : d[k] = "." THEN (CHOOSE k \in 1..Len(d) : d[k] = ".") - 1 ELSE Len(d)

\* the number of characters after the point
FractionDigits(d) ==
    IF \E k \in 1..Len(d) : d[k] = "." THEN Len(d) - IntegerDigits(d) - 1 ELSE 0

\* a decimal number: digits, an integer part that is "0" or starts with
\* another digit, and, after a point if there is one, a fraction that does
\* not end with "0"
ValidDecimal(d) ==
    /\ \A k \in 1..Len(d) : d[k] \in DigitCharSet \cup {"."}
    /\ Cardinality({k \in 1..Len(d) : d[k] = "."}) <= 1
    /\ IntegerDigits(d) >= 1
    /\ IntegerDigits(d) > 1 => d[1] # "0"
    /\ Len(d) > IntegerDigits(d) => (FractionDigits(d) >= 1 /\ d[Len(d)] # "0")

ValidShorthand(i) == ValidDecimal(ShorthandDecimal(i))

\* numberFromString was called and has ended, by a return or a panic
NumberFromStringEnded == call.fn = "numberFromString" /\ pc # "call"

\* C8, as stated: for every valid shorthand string s (a decimal number
\* without trailing fractional zeros, an optional prefix among k M G T P, an
\* optional "i", an optional "B"), numberFromString(s) succeeds and
\* Number.string of the result is s
C8_RoundTripAnyDecimal ==
    (NumberFromStringEnded /\ ValidShorthand(call.arg)) =>
        /\ pc # "panic"
        /\ err.nil
        /\ pc = "done" => ret.s[1] = Str(call.arg)

\* C8, amended: the same for the valid shorthand strings whose decimal
\* number has at most three fractional digits and at most twelve integer
\* digits
C8_RoundTripThreeDecimals ==
    (/\ NumberFromStringEnded
     /\ ValidShorthand(call.arg)
     /\ FractionDigits(ShorthandDecimal(call.arg)) <= 3
     /\ IntegerDigits(ShorthandDecimal(call.arg)) <= 12) =>
        /\ pc # "panic"
        /\ err.nil
        /\ pc = "done" => ret.s[1] = Str(call.arg)

\* "1.1kiB" was parsed and rendered back as "1.1kiB"
C8_Witness ==
    /\ pc = "done"
    /\ call = [fn |-> "numberFromString", arg |-> <<"1", ".", "1", "k", "i", "B">>]
    /\ ret.s = <<"1.1kiB">>

\* rank is 0 for the empty prefix and 1, 2, 3, 4, 5 for k, M, G, T, P in
\* either case
PrefixRank ==
    [p \in {"", "k", "K", "M", "m", "G", "g", "T", "t", "P", "p"} |->
        CASE p = "" -> 0
          [] p \in {"k", "K"} -> 1
          [] p \in {"M", "m"} -> 2
          [] p \in {"G", "g"} -> 3
          [] p \in {"T", "t"} -> 4
          [] p \in {"P", "p"} -> 5]

\* value * (8 if ByteMultiple) * base^rank with base 1024 = 2^10 or
\* 1000 = 10^3, as m * 2^x2 / 10^e
Resolved(n) ==
    LET value == IF n.Value.type = "int" THEN Float(n.Value.int, 0) ELSE n.Value.float64
        rank == PrefixRank[n.Prefix]
    IN  Normalize([value EXCEPT
            !.x2 = @ + (IF n.ByteMultiple THEN 3 ELSE 0) + (IF n.BinaryMultiple THEN 10 * rank ELSE 0),
            !.e = @ - (IF n.BinaryMultiple THEN 0 ELSE 3 * rank)])

\* C9: for every Number with an int or float value, Number.float64 is
\* value * (8 if ByteMultiple else 1) * base^rank, where base is 1024 if
\* BinaryMultiple else 1000 and rank is 0 for the empty prefix and 1..5 for
\* k, M, G, T, P in either case
C9_Float64Resolution ==
    (/\ pc \in {"resolved", "done"}
     /\ ret.n[1].Value.type \in {"int", "float64"}
     /\ ret.n[1].Prefix \in DOMAIN PrefixRank) =>
        ret.f[1] = Resolved(ret.n[1])

\* Number{Value: 3, Prefix: "M", BinaryMultiple: true, ByteMultiple: true}
\* was resolved to 3 * 8 * 1024^2 = 3 * 2^23
C9_Witness ==
    /\ pc = "resolved"
    /\ ret.n = <<[BinaryMultiple |-> TRUE, ByteMultiple |-> TRUE, Prefix |-> "M", Value |-> IntValue(3)]>>
    /\ ret.f = <<[m |-> 3, e |-> 0, x2 |-> 23, up |-> FALSE]>>

\* C10: for every input string, the empty string and the strings made only
\* of suffixes included, numberFromString ends by returning a Number or an
\* error (pc "parsed" and later), never otherwise
C10_NumberFromStringReturns ==
    NumberFromStringEnded => (pc = "parsed" \/ pc = "resolved" \/ pc = "done")

(***************************************************************************)
(* Input, InputOptions, DecodingOptions                                    *)
(***************************************************************************)
\* time.Duration.Seconds of a duration in nanoseconds
Seconds(d) == Float(d, 9)

\* DecodingOptions{}
DecodingOptionsZero ==
    [Codec |-> <<>>, DeinterlacingMode |-> "", DropSecondField |-> <<>>, Duration |-> 0,
     HardwareAcceleration |-> "", HardwareAccelerationDevice |-> <<>>, Position |-> 0]

DecodingOptions_adaptCmd(o, c) ==
    LET c1 == IF o.HardwareAcceleration # ""
              THEN ArgPtrInt(AppendArgs(c, <<"-hwaccel", o.HardwareAcceleration>>),
                             o.HardwareAccelerationDevice, "-hwaccel_device")
              ELSE c
        c2 == IF o.DeinterlacingMode # "" THEN AppendArgs(c1, <<"-deint", o.DeinterlacingMode>>) ELSE c1
        c3 == IF o.Duration > 0
              THEN AppendArgs(c2, <<"-t", FormatFloat(Seconds(o.Duration), 3)>>) ELSE c2
        c4 == IF o.Position > 0
              THEN AppendArgs(c3, <<"-ss", FormatFloat(Seconds(o.Position), 3)>>) ELSE c3
        c5 == IF o.DropSecondField # <<>>
              THEN AppendArgs(c4, <<"-drop_second_field", IF o.DropSecondField[1] THEN "1" ELSE "0">>)
              ELSE c4
    IN  IF o.Codec = <<>> THEN Ok(c5)
        ELSE Let(StreamOption_adaptCmd(o.Codec[1], c5, "-c"), LAMBDA r :
                 IF ~r.err.nil
                 THEN Fail(r.cmd, Wrap("astiffmpeg: adapting cmd for -c option failed", r.err))
                 ELSE r)

InputOptions_adaptCmd(o, c) ==
    IF o.Decoding = <<>> THEN Ok(c)
    ELSE Let(DecodingOptions_adaptCmd(o.Decoding[1], c), LAMBDA r :
             IF ~r.err.nil
             THEN Fail(r.cmd, Wrap("astiffmpeg: adapting cmd for decoding options failed", r.err))
             ELSE r)

\* Input.adaptCmd with "-i" and the path written before the options
Input_adaptCmd_pathFirst(i, c) ==
    Let(IF i.Options = <<>> THEN Ok(AppendArgs(c, <<"-i", i.Path>>))
        ELSE InputOptions_adaptCmd(i.Options[1], AppendArgs(c, <<"-i", i.Path>>)), LAMBDA r :
        IF ~r.err.nil
        THEN Fail(r.cmd, Wrap("astiffmpeg: adapting cmd for options failed", r.err))
        ELSE r)

Input_adaptCmd(i, c) ==
    Let(IF i.Options = <<>> THEN Ok(c) ELSE InputOptions_adaptCmd(i.Options[1], c), LAMBDA r :
        IF ~r.err.nil
        THEN Fail(r.cmd, Wrap("astiffmpeg: adapting cmd for options failed", r.err))
        ELSE Ok(AppendArgs(r.cmd, <<"-i", i.Path>>)))

(***************************************************************************)
(* Output, OutputOptions, MapOptions                                       *)
(***************************************************************************)
MapOption_adaptCmd(o, c) ==
    LET v == Itoa(o.InputFileID)
    IN  AppendArgs(c, <<"-map",
                        IF o.Stream # <<>> THEN v \o ":" \o StreamSpecifier_string(o.Stream[1]) ELSE v>>)

RECURSIVE MapOptions_adaptCmd(_, _)
\* for _, o := range os { o.adaptCmd(cmd) }
MapOptions_adaptCmd(os, c) ==
    IF os = <<>> THEN c ELSE MapOptions_adaptCmd(Tail(os), MapOption_adaptCmd(Head(os), c))

OutputOptions_adaptCmd(o, c) ==
    LET c1 == IF o.Map # <<>> THEN MapOptions_adaptCmd(o.Map[1], c) ELSE c
    IN  Let(IF o.Encoding = <<>> THEN Ok(c1) ELSE EncodingOptions_adaptCmd(o.Encoding[1], c1), LAMBDA r :
            IF ~r.err.nil
            THEN Fail(r.cmd, Wrap("astiffmpeg: adapting cmd for encoding options failed", r.err))
            ELSE IF o.Format # "" THEN Ok(AppendArgs(r.cmd, <<"-f", o.Format>>)) ELSE r)

Output_adaptCmd(o, c) ==
    Let(IF o.Options = <<>> THEN Ok(c) ELSE OutputOptions_adaptCmd(o.Options[1], c), LAMBDA r :
        IF ~r.err.nil
        THEN Fail(r.cmd, Wrap("astiffmpeg: adapting cmd for output failed", r.err))
        ELSE Ok(AppendArgs(r.cmd, <<o.Path>>)))

(***************************************************************************)
(* FFMpeg.Exec                                                             *)
(*                                                                         *)
(* Exec runs in the caller's goroutine (pc).  Beside it run the goroutine  *)
(* that ranges over the ticker's channel (task), the runtime's ticker      *)
(* (ticker), the external process (proc), the goroutine of os/exec that    *)
(* copies the process's stderr to bufErr (pipe, bufErr) and the caller,    *)
(* who may cancel the context (ctxDone).                                   *)
(***************************************************************************)
\* the longest list of inputs
MaxInputs == 2

\* the most chunks a process writes to its stderr
MaxWrites == 2

\* the most ticks of the ticker
MaxTicks == 2

\* Configuration.BinaryPath
binaryPath == "ffmpeg"

\* os.Environ()
OsEnviron == <<"HOME=/root">>

DecodingFull ==
    [Codec |-> <<[Stream |-> VideoStream, Value |-> StringValue("h264_cuvid")]>>,
     DeinterlacingMode |-> "bob", DropSecondField |-> <<TRUE>>, Duration |-> 1500000000,
     HardwareAcceleration |-> "cuvid", HardwareAccelerationDevice |-> <<0>>,
     Position |-> 2000000]

\* the codec is not a string
DecodingBad ==
    [DecodingOptionsZero EXCEPT !.HardwareAcceleration = "cuvid",
                                !.Codec = <<[Stream |-> NoStream, Value |-> IntValue(1)]>>]

InputSet ==
    {[Options |-> <<>>, Path |-> "a.mp4"],
     [Options |-> <<[Decoding |-> <<>>]>>, Path |-> "b.mp4"],
     [Options |-> <<[Decoding |-> <<DecodingFull>>]>>, Path |-> "c.ts"],
     [Options |-> <<[Decoding |-> <<DecodingBad>>]>>, Path |-> "d.ts"]}

EncodingGood ==
    EncodingOptions(("Bitrate" :> <<[Stream |-> VideoStream, Value |-> Number1500]>>)
                    @@ ("Preset" :> "fast"))

\* the second -maxrate entry is not a Number
EncodingBad ==
    EncodingOptions(("Maxrate" :> <<[Stream |-> NoStream, Value |-> Number3M],
                                   [Stream |-> AudioStream1, Value |-> IntValue(128)]>>))

OutputSet ==
    {[Options |-> <<>>, Path |-> "out.mp4"],
     [Options |-> <<[Encoding |-> <<>>, Format |-> "",
                     Map |-> <<<<[InputFileID |-> 0, Stream |-> AudioStream1]>>>>]>>,
      Path |-> "out.aac"],
     [Options |-> <<[Encoding |-> <<EncodingGood>>, Format |-> "mp4",
                     Map |-> <<<<[InputFileID |-> 0, Stream |-> VideoStream],
                                 [InputFileID |-> 1, Stream |-> NoStream]>>>>]>>,
      Path |-> "out.mp4"],
     [Options |-> <<[Encoding |-> <<EncodingBad>>, Format |-> "mp4", Map |-> <<>>]>>,
      Path |-> "out.mp4"]}

ExecGlobals ==
    {GlobalOptionsZero,
     [Log |-> <<[Color |-> <<FALSE>>, Level |-> LogLevelFatal, Repeated |-> FALSE]>>,
      NoStats |-> TRUE, Overwrite |-> <<TRUE>>, Report |-> FALSE]}

\* what a process writes to its stderr: a progress line first, then
\* messages
StderrChunk(k) == IF k = 1 THEN "frame=1 fps=25 " ELSE "Conversion failed!"

Init ==
    /\ pc = "Exec"
    /\ \E g \in ExecGlobals, in \in {<<>>} \cup SeqsUpTo(InputSet, MaxInputs),
          out \in OutputSet, installed \in BOOLEAN :
          call = [fn |-> "Exec",
                  arg |-> [g |-> g, in |-> in, out |-> out, stdErrParser |-> installed]]
    /\ cmd = EmptyCmd
    /\ err = NilErr
    /\ ret = <<>>
    /\ ExecIdle

\* defer t.Stop(), registered only when a parser is installed: no further
\* tick is sent, the channel t.C stays open
StopTicker(t) == IF t.state = "running" THEN [t EXCEPT !.state = "stopped"] ELSE t

\* fmt.Errorf("astiffmpeg: running %s failed with stderr %s: %w", ...)
\* without the bytes of bufErr
RunError_noStderr(args, buf, e) ==
    Wrap("astiffmpeg: running " \o Join(args, " ") \o " failed with stderr ", e)

\* fmt.Errorf("astiffmpeg: running %s failed with stderr %s: %w",
\*            strings.Join(cmd.Args, " "), bufErr.Bytes(), err)
RunError(args, buf, e) ==
    Wrap("astiffmpeg: running " \o Join(args, " ") \o " failed with stderr " \o Str(buf), e)

\* the text of the *exec.ExitError of a process that did not succeed
ExitErrorMsg(code) == IF code < 0 THEN "signal: killed" ELSE "exit status " \o Itoa(code)

\* return err, with the deferred t.Stop()
Return(e) ==
    /\ err' = e
    /\ ret' = Append(ret, e)
    /\ pc' = "returned"
    /\ ticker' = StopTicker(ticker)

\* lines 97-116: the command is created, the global options are adapted
\* and, if a parser is installed, the ticker and its goroutine are started
ExecCreateCmd ==
    /\ pc = "Exec"
    /\ cmd' = GlobalOptions_adaptCmd(call.arg.g, [Args |-> <<binaryPath>>, Env |-> OsEnviron])
    /\ IF call.arg.stdErrParser
       THEN /\ ticker' = [NoTicker EXCEPT !.state = "running"]
            /\ task' = [NoTask EXCEPT !.state = "waiting"]
       ELSE UNCHANGED <<ticker, task>>
    /\ inputIdx' = 0
    /\ pc' = "inputs"
    /\ UNCHANGED <<call, err, ret, proc, pipe, bufErr, ctxDone>>

\* ExecInput continuing with the next input after an error
ExecInput_ignoreError ==
    /\ pc = "inputs"
    /\ inputIdx < Len(call.arg.in)
    /\ cmd' = Input_adaptCmd(call.arg.in[inputIdx + 1], cmd).cmd
    /\ inputIdx' = inputIdx + 1
    /\ UNCHANGED <<pc, err, ret, ticker, call, proc, pipe, bufErr, task, ctxDone>>

\* lines 119-124: one iteration of the loop over the inputs
ExecInput ==
    /\ pc = "inputs"
    /\ inputIdx < Len(call.arg.in)
    /\ \E r \in {Input_adaptCmd(call.arg.in[inputIdx + 1], cmd)} :
          /\ cmd' = r.cmd
          /\ IF ~r.err.nil
             THEN /\ Return(Wrap("astiffmpeg: adapting cmd for input #" \o Itoa(inputIdx)
                                     \o " failed", r.err))
                  /\ UNCHANGED inputIdx
             ELSE /\ inputIdx' = inputIdx + 1
                  /\ UNCHANGED <<pc, err, ret, ticker>>
    /\ UNCHANGED <<call, proc, pipe, bufErr, task, ctxDone>>

\* lines 127-130: the output, after the last input
ExecOutput ==
    /\ pc = "inputs"
    /\ inputIdx = Len(call.arg.in)
    /\ \E r \in {Output_adaptCmd(call.arg.out, cmd)} :
          /\ cmd' = r.cmd
          /\ IF ~r.err.nil
             THEN Return(Wrap("astiffmpeg: adapting cmd for output failed", r.err))
             ELSE /\ pc' = "run"
                  /\ UNCHANGED <<err, ret, ticker>>
    /\ UNCHANGED <<call, inputIdx, proc, pipe, bufErr, task, ctxDone>>

\* line 133, cmd.Run: cmd.Start.  It fails when the context is already
\* done or when the binary cannot be executed; cmd.Run then returns the
\* error and Exec wraps it (lines 134-135)
CmdStart ==
    /\ pc = "run"
    /\ \E cause \in (IF ctxDone THEN {"context canceled"}
                      ELSE {"", "exec: \"ffmpeg\": executable file not found in $PATH"}) :
          IF cause = ""
          THEN /\ proc' = [proc EXCEPT !.state = "running", !.starts = @ + 1, !.argv = cmd.Args]
               /\ pc' = "wait"
               /\ UNCHANGED <<err, ret, ticker>>
          ELSE /\ proc' = [proc EXCEPT !.starts = @ + 1]
               /\ Return(RunError(cmd.Args, bufErr, Errorf(cause)))
    /\ UNCHANGED <<call, cmd, inputIdx, pipe, bufErr, task, ctxDone>>

\* the running process writes to its stderr
ProcessWrite ==
    /\ proc.state = "running"
    /\ Len(proc.written) < MaxWrites
    /\ \E chunk \in {StderrChunk(Len(proc.written) + 1)} :
          /\ proc' = [proc EXCEPT !.written = Append(@, chunk)]
          /\ pipe' = Append(pipe, chunk)
    /\ UNCHANGED <<pc, call, cmd, err, ret, inputIdx, bufErr, ticker, task, ctxDone>>

\* the goroutine of os/exec has read what the process wrote and calls
\* cmd.Stderr.Write, that is bufErr.Write, with it: the append begins
CopyStderr ==
    /\ pipe # <<>>
    /\ ~proc.copying
    /\ proc' = [proc EXCEPT !.copying = TRUE]
    /\ UNCHANGED <<pc, call, cmd, err, ret, inputIdx, pipe, bufErr, ticker, task, ctxDone>>

\* bufErr.Write returns: the chunk is appended
WriteReturn ==
    /\ proc.copying
    /\ bufErr' = Append(bufErr, Head(pipe))
    /\ pipe' = Tail(pipe)
    /\ proc' = [proc EXCEPT !.copying = FALSE]
    /\ UNCHANGED <<pc, call, cmd, err, ret, inputIdx, ticker, task, ctxDone>>

\* the first bytes of a chunk: what bufErr.Write has copied when it is not
\* done
Torn(chunk) == IF chunk = StderrChunk(1) THEN "frame=1 fp" ELSE "Conversion"

\* b.Bytes() in Process (parser.go line 37).  bytes.Buffer has no lock: a
\* call made while bufErr.Write is running is a data race, and it may find
\* the buffer as it was before the append, as it is after it, or with the
\* length grown and the chunk copied in part
BufferBytes ==
    IF proc.copying
    THEN {bufErr, Append(bufErr, Head(pipe)), Append(bufErr, Torn(Head(pipe)))}
    ELSE {bufErr}

\* the process exits by itself
ProcessExit ==
    /\ proc.state = "running"
    /\ \E code \in {0, 1} : proc' = [proc EXCEPT !.state = "exited", !.code = code]
    /\ UNCHANGED <<pc, call, cmd, err, ret, inputIdx, pipe, bufErr, ticker, task, ctxDone>>

\* the caller cancels the context given to Exec
ContextCancel ==
    /\ pc # "returned"
    /\ ~ctxDone
    /\ ctxDone' = TRUE
    /\ UNCHANGED <<pc, call, cmd, err, ret, inputIdx, proc, pipe, bufErr, ticker, task>>

\* exec.CommandContext: the process is killed once the context is done
ContextKill ==
    /\ ctxDone
    /\ proc.state = "running"
    /\ proc' = [proc EXCEPT !.state = "exited", !.code = -1]
    /\ UNCHANGED <<pc, call, cmd, err, ret, inputIdx, pipe, bufErr, ticker, task, ctxDone>>

\* line 133, cmd.Run: cmd.Wait returns when the process has exited and its
\* stderr is copied to the end; lines 134-137
CmdWait ==
    /\ pc = "wait"
    /\ proc.state = "exited"
    /\ pipe = <<>>
    /\ IF proc.code = 0 THEN Return(NilErr)
       ELSE Return(RunError(cmd.Args, bufErr, Errorf(ExitErrorMsg(proc.code))))
    /\ UNCHANGED <<call, cmd, inputIdx, proc, pipe, bufErr, task, ctxDone>>

\* the runtime sends a tick on t.C, which holds one tick: a tick that finds
\* the channel full is dropped
Tick ==
    /\ ticker.state = "running"
    /\ ticker.ticks < MaxTicks
    /\ ticker' = [ticker EXCEPT !.C = 1, !.ticks = @ + 1]
    /\ UNCHANGED <<pc, call, cmd, err, ret, inputIdx, proc, pipe, bufErr, task, ctxDone>>

\* lines 112-113: the goroutine receives a tick and calls Process, which
\* reads b.Bytes()
TaskReceive ==
    /\ task.state = "waiting"
    /\ ticker.C = 1
    /\ ticker' = [ticker EXCEPT !.C = 0]
    /\ \E b \in BufferBytes :
          task' = [task EXCEPT !.state = "processing", !.calls = @ + 1, !.seen = b,
                               !.during = pc]
    /\ UNCHANGED <<pc, call, cmd, err, ret, inputIdx, proc, pipe, bufErr, ctxDone>>

\* Process returns and the goroutine waits for the next tick
TaskProcessReturn ==
    /\ task.state = "processing"
    /\ task' = [task EXCEPT !.state = "waiting"]
    /\ UNCHANGED <<pc, call, cmd, err, ret, inputIdx, proc, pipe, bufErr, ticker, ctxDone>>

Next ==
    \/ ExecCreateCmd \/ ExecInput \/ ExecOutput \/ CmdStart \/ CmdWait
    \/ ProcessWrite \/ CopyStderr \/ WriteReturn \/ ProcessExit
    \/ ContextCancel \/ ContextKill
    \/ Tick \/ TaskReceive \/ TaskProcessReturn

Spec == Init /\ [][Next]_vars

\* what the scheduler and the runtime guarantee: Exec, the goroutine of
\* os/exec and the goroutine of the ticker each take their next step when
\* they can, and a process whose context is done is killed.  Nothing makes
\* the process write or exit, the caller cancel, or a further tick arrive
\* within a given time.
Fairness ==
    /\ WF_vars(ExecCreateCmd \/ ExecInput \/ ExecOutput \/ CmdStart \/ CmdWait)
    /\ WF_vars(CopyStderr \/ WriteReturn)
    /\ WF_vars(ContextKill)
    /\ WF_vars(TaskReceive \/ TaskProcessReturn)

FairSpec == Spec /\ Fairness

(***************************************************************************)
(* Properties of Exec                                                      *)
(***************************************************************************)
\* G: the global arguments
GlobalArgs == [g \in ExecGlobals |-> GlobalOptions_adaptCmd(g, EmptyCmd).Args]

\* the decoding arguments of an input
DecodingArgs ==
    [i \in InputSet |->
        IF i.Options = <<>> \/ i.Options[1].Decoding = <<>> THEN <<>>
        ELSE DecodingOptions_adaptCmd(i.Options[1].Decoding[1], EmptyCmd).cmd.Args]

RECURSIVE InputsArgs(_)
\* I1 ++ ... ++ In: for each input its decoding arguments, "-i", its path
InputsArgs(in) ==
    IF in = <<>> THEN <<>>
    ELSE DecodingArgs[Head(in)] \o <<"-i", Head(in).Path>> \o InputsArgs(Tail(in))

\* O: the -map arguments, the encoding arguments, "-f" and the format if
\* set, the path
OutputArgs ==
    [out \in OutputSet |->
        LET o == out.Options
            maps == IF o = <<>> \/ o[1].Map = <<>> THEN <<>>
                    ELSE MapOptions_adaptCmd(o[1].Map[1], EmptyCmd).Args
            encoding == IF o = <<>> \/ o[1].Encoding = <<>> THEN <<>>
                        ELSE EncodingOptions_adaptCmd(o[1].Encoding[1], EmptyCmd).cmd.Args
            format == IF o = <<>> \/ o[1].Format = "" THEN <<>> ELSE <<"-f", o[1].Format>>
        IN  maps \o encoding \o format \o <<out.Path>>]

\* the error of the rendering of each input and of each output
InputError == [i \in InputSet |-> Input_adaptCmd(i, EmptyCmd).err]

OutputError == [out \in OutputSet |-> Output_adaptCmd(out, EmptyCmd).err]

\* the inputs, by zero-based position, whose rendering fails
FailingInputs(in) == {k \in 0..(Len(in) - 1) : ~InputError[in[k + 1]].nil}

\* the compilation of the arguments of the Exec call succeeds
CompileOk == FailingInputs(call.arg.in) = {} /\ OutputError[call.arg.out].nil

\* C1: when the compilation succeeds, the arguments the process is started
\* with, after the name of the binary, are G ++ I1 ++ ... ++ In ++ O: the
\* global arguments, then for each input in list order its decoding
\* arguments, "-i" and its path, then the output's -map arguments, encoding
\* arguments, "-f" <format> if set, and the output path as last element
C1_ArgumentVector ==
    proc.state # "none" =>
        /\ CompileOk
        /\ proc.argv = <<binaryPath>> \o GlobalArgs[call.arg.g] \o InputsArgs(call.arg.in)
                           \o OutputArgs[call.arg.out]
        /\ proc.argv[Len(proc.argv)] = call.arg.out.Path

\* a process runs with two inputs, the second with decoding options, and an
\* output with -map, encoding options and a format
C1_Witness ==
    /\ proc.state = "running"
    /\ proc.argv = <<"ffmpeg", "-hide_banner", "-i", "a.mp4",
                     "-hwaccel", "cuvid", "-hwaccel_device", "0", "-deint", "bob",
                     "-t", "1.500", "-ss", "0.002", "-drop_second_field", "1",
                     "-c:v", "h264_cuvid", "-i", "c.ts",
                     "-map", "0:v", "-map", "1", "-b:v", "1.5k", "-preset", "fast",
                     "-f", "mp4", "out.mp4">>

\* C6: in an Exec call in which the rendering of an input or of the output
\* fails, no process is ever started, and the error Exec returns names the
\* position of the first failing input, or the output
C6_NoStartOnRenderFailure ==
    ~CompileOk =>
        /\ proc.state = "none" /\ proc.starts = 0
        /\ pc \notin {"run", "wait"}
        /\ pc = "returned" =>
              LET bad == FailingInputs(call.arg.in)
              IN  IF bad # {}
                  THEN LET k == CHOOSE x \in bad : \A y \in bad : x <= y
                       IN  ret = <<Wrap("astiffmpeg: adapting cmd for input #" \o Itoa(k) \o " failed",
                                        InputError[call.arg.in[k + 1]])>>
                  ELSE ret = <<Wrap("astiffmpeg: adapting cmd for output failed",
                                    OutputError[call.arg.out])>>

\* Exec returned the error of input #1, the second of two inputs, and no
\* process was started with the arguments built so far
C6_Witness ==
    /\ pc = "returned"
    /\ Len(call.arg.in) = 2
    /\ FailingInputs(call.arg.in) = {1}
    /\ proc = NoProcess
    /\ cmd.Args = <<"ffmpeg", "-hide_banner", "-i", "a.mp4", "-hwaccel", "cuvid">>
    /\ ret = <<Errorf("astiffmpeg: adapting cmd for input #1 failed: astiffmpeg: adapting cmd for options failed: astiffmpeg: adapting cmd for decoding options failed: astiffmpeg: adapting cmd for -c option failed: astiffmpeg: adapting cmd for stream option -c failed: astiffmpeg: value should be a string: %!w(<nil>)")>>

\* C7: an Exec call starts the process at most once and returns exactly one
\* result: nil when the compilation succeeded and the process exited with
\* status zero, otherwise an error; when the process failed to start or did
\* not exit with status zero, the error carries the argument vector and
\* all the bytes the process wrote to its stderr
C7_OneStartOneResult ==
    /\ proc.starts <= 1
    /\ Len(ret) = (IF pc = "returned" THEN 1 ELSE 0)
    /\ pc = "returned" =>
          /\ ret[1].nil <=> (CompileOk /\ proc.state = "exited" /\ proc.code = 0)
          /\ (proc.starts = 1 /\ ~ret[1].nil) =>
                \E cause \in {"context canceled", "signal: killed", "exit status 1",
                               "exec: \"ffmpeg\": executable file not found in $PATH"} :
                   ret[1].msg = "astiffmpeg: running " \o Join(cmd.Args, " ")
                                   \o " failed with stderr " \o Str(proc.written)
                                   \o ": " \o cause

\* the process wrote two chunks to its stderr and exited with status 1:
\* Exec returned the error with the arguments and both chunks
C7_Witness ==
    /\ pc = "returned"
    /\ proc.state = "exited" /\ proc.code = 1
    /\ proc.written = <<"frame=1 fps=25 ", "Conversion failed!">>
    /\ ret = <<Errorf("astiffmpeg: running ffmpeg -hide_banner -i a.mp4 out.mp4 failed with stderr frame=1 fps=25 Conversion failed!: exit status 1")>>

\* C18: once Exec has returned, no new call of Process begins: every call
\* of Process began while Exec was running
C18_NoProcessCallAfterReturn ==
    task.state = "processing" => task.during # "returned"

\* the buffer after some number of completed appends: the first chunks that
\* the process wrote
WholeAppends == {SubSeq(proc.written, 1, n) : n \in 0..Len(proc.written)}

\* C21: no read of the buffer by Process is in progress while an append to
\* it is in progress, and what Process was given is the buffer as it stood
\* after a whole number of completed appends
C21_BufferAccessSerialized ==
    /\ ~(task.state = "processing" /\ proc.copying)
    /\ task.seen \in WholeAppends

\* C22: after Exec has returned, the goroutine that Exec started for the
\* ticker eventually terminates.  The goroutine ends when its loop over
\* t.C ends, which takes a closed channel: no step of the program closes
\* t.C, so no step takes the goroutine out of its loop.
C22_TaskTerminates ==
    (pc = "returned" /\ task.state # "none") ~> (task.state = "terminated")

\* C23: Process is never called before the process has been started, and so
\* never during an Exec whose rendering of an input or of the output fails
C23_ProcessOnlyAfterStart ==
    task.calls > 0 => proc.state # "none"

(***************************************************************************)
(* The prefix of a parsed Number                                           *)
(***************************************************************************)
\* C11: every Number that numberFromString returns without error has a
\* Prefix that is empty or one of the letters k, M, G, T, P in either case
C11_PrefixIsDefinedLetter ==
    (NumberFromStringEnded /\ pc # "panic" /\ err.nil) =>
        ret.n[1].Prefix \in {"", "k", "K", "M", "m", "G", "g", "T", "t", "P", "p"}

(***************************************************************************)
(* Direct calls of StreamSpecifier.string and Scale.string, as             *)
(* TestStreamSpecifier makes them                                          *)
(***************************************************************************)
\* the largest stream index and, in tens of pixels, the largest dimension
MaxIndex == 3

StreamSpecifierTypeSubtitle == "s"

StreamSpecifierTypeVideoAndNotThumbnail == "V"

\* *int: nil or a pointer to one of the values
PtrInt(S) == {<<>>} \cup {<<n>> : n \in S}

StreamSpecifierSet ==
    [Index : PtrInt(0..MaxIndex),
     Name : {"", "out", "v"},
     Type : {"", StreamSpecifierTypeAudio, StreamSpecifierTypeSubtitle,
             StreamSpecifierTypeVideo, StreamSpecifierTypeVideoAndNotThumbnail}]

ScaleSet ==
    [Height : PtrInt({-2} \cup {10 * n : n \in 0..MaxIndex}),
     Width : PtrInt({-2} \cup {10 * n : n \in 0..MaxIndex})]

InitFormat ==
    /\ ExecIdle
    /\ pc = "call"
    /\ \/ \E v \in StreamSpecifierSet : call = [fn |-> "StreamSpecifier.string", arg |-> v]
       \/ \E v \in ScaleSet : call = [fn |-> "Scale.string", arg |-> v]
    /\ cmd = EmptyCmd
    /\ err = NilErr
    /\ ret = <<>>

CallStreamSpecifierString ==
    /\ pc = "call"
    /\ call.fn = "StreamSpecifier.string"
    /\ ret' = <<StreamSpecifier_string(call.arg)>>
    /\ pc' = "done"
    /\ UNCHANGED <<call, cmd, err>>
    /\ UNCHANGED execVars

CallScaleString ==
    /\ pc = "call"
    /\ call.fn = "Scale.string"
    /\ ret' = <<Scale_string(call.arg)>>
    /\ pc' = "done"
    /\ UNCHANGED <<call, cmd, err>>
    /\ UNCHANGED execVars

NextFormat == CallStreamSpecifierString \/ CallScaleString

SpecFormat == InitFormat /\ [][NextFormat]_vars

\* C12: StreamSpecifier.string is Name when Name is not empty, whatever
\* Type and Index are; otherwise Type, ":" and Index when both are set,
\* Type alone when only Type is set, the bare Index when only Index is set,
\* and the empty string when nothing is set
C12_StreamSpecifierPrecedence ==
    (pc = "done" /\ call.fn = "StreamSpecifier.string") =>
        LET s == call.arg
        IN  ret[1] = CASE s.Name # "" -> s.Name
                       [] s.Name = "" /\ s.Type # "" /\ s.Index # <<>> ->
                              s.Type \o ":" \o ToString(s.Index[1])
                       [] s.Name = "" /\ s.Type # "" /\ s.Index = <<>> -> s.Type
                       [] s.Name = "" /\ s.Type = "" /\ s.Index # <<>> -> ToString(s.Index[1])
                       [] OTHER -> ""

\* StreamSpecifier{Name: "out", Type: "s", Index: 2} was rendered as "out"
C12_Witness ==
    /\ pc = "done"
    /\ call = [fn |-> "StreamSpecifier.string",
               arg |-> [Index |-> <<2>>, Name |-> "out", Type |-> StreamSpecifierTypeSubtitle]]
    /\ ret = <<"out">>

\* the text of an unset or set dimension
Dimension(p) == IF p = <<>> THEN "-1" ELSE ToString(p[1])

\* C13, as stated: Scale.string renders the width first and the height
\* second, "w=<W>:h=<H>", with -1 for each dimension that is unset
C13_WidthThenHeight ==
    (pc = "done" /\ call.fn = "Scale.string") =>
        ret[1] = "w=" \o Dimension(call.arg.Width) \o ":h=" \o Dimension(call.arg.Height)

\* C13, amended: Scale.string renders the height first and the width
\* second, "h=<H>:w=<W>", with -1 for each dimension that is unset
C13_HeightThenWidth ==
    (pc = "done" /\ call.fn = "Scale.string") =>
        ret[1] = "h=" \o Dimension(call.arg.Height) \o ":w=" \o Dimension(call.arg.Width)

\* Scale{Width: 20} was rendered as "h=-1:w=20"
C13_Witness ==
    /\ pc = "done"
    /\ call = [fn |-> "Scale.string", arg |-> [Height |-> <<>>, Width |-> <<20>>]]
    /\ ret = <<"h=-1:w=20">>

(***************************************************************************)
(* defaultStdErrParser (parser.go).  The bytes of the stderr buffer are a  *)
(* sequence of one-character strings; a time.Duration of the results is a  *)
(* number of milliseconds.                                                 *)
(***************************************************************************)
RECURSIVE Split(_, _)
\* bytes.Split(b, sep) and strings.Split(s, sep) for a one-byte separator:
\* the pieces between the separators, one piece when there is none
Split(b, sep) ==
    IF \A n \in 1..Len(b) : b[n] # sep THEN <<b>>
    ELSE LET n == CHOOSE x \in 1..Len(b) : b[x] = sep /\ \A y \in 1..(x - 1) : b[y] # sep
         IN  <<SubSeq(b, 1, n - 1)>> \o Split(SubSeq(b, n + 1, Len(b)), sep)

\* the white space of bytes.TrimSpace
WhiteSpace == {" ", "\t", "\n", "\r", "\f"}

RECURSIVE TrimSpace(_)
\* bytes.TrimSpace(b)
TrimSpace(b) ==
    IF b = <<>> THEN b
    ELSE IF Head(b) \in WhiteSpace THEN TrimSpace(Tail(b))
    ELSE IF b[Len(b)] \in WhiteSpace THEN TrimSpace(SubSeq(b, 1, Len(b) - 1))
    ELSE b

\* strings.TrimSuffix(v, suffix)
TrimSuffix(v, suffix) ==
    IF Len(v) >= Len(suffix) /\ SubSeq(v, Len(v) - Len(suffix) + 1, Len(v)) = suffix
    THEN SubSeq(v, 1, Len(v) - Len(suffix)) ELSE v

\* strconv.Atoi(s): an optional sign and at least one digit
Atoi(cs) ==
    LET signed == Len(cs) > 0 /\ cs[1] \in {"+", "-"}
        ds == IF signed THEN Tail(cs) ELSE cs
    IN  IF Len(ds) > 0 /\ \A n \in 1..Len(ds) : ds[n] \in DigitCharSet
        THEN [v |-> IF signed /\ cs[1] = "-" THEN 0 - DigitsValue(ds) ELSE DigitsValue(ds),
              err |-> NilErr]
        ELSE [v |-> 0, err |-> Errorf("strconv.Atoi: parsing \"" \o Str(cs) \o "\": invalid syntax")]

\* int(f) of a float64 that is not negative: the integer part
IntOfFloat(f) ==
    LET num == f.m * Pow(2, IF f.x2 > 0 THEN f.x2 ELSE 0) * Pow(10, IF f.e < 0 THEN 0 - f.e ELSE 0)
        den == Pow(2, IF f.x2 < 0 THEN 0 - f.x2 ELSE 0) * Pow(10, IF f.e > 0 THEN f.e ELSE 0)
    IN  num \div den

\* time.Millisecond, time.Second, time.Minute, time.Hour in milliseconds
Millisecond == 1

Second == 1000

Minute == 60000

Hour == 3600000

\* DefaultStdErrResults{}
DefaultStdErrResultsZero ==
    [Bitrate |-> <<>>, FPS |-> <<>>, Frame |-> <<>>, Q |-> <<>>, Size |-> <<>>,
     Speed |-> <<>>, Time |-> <<>>]

\* the characters of "kbits/s"
KbitsPerSecond == <<"k", "b", "i", "t", "s", "/", "s">>

\* case "time" with the digits after the point taken as milliseconds
ParseTime_fractionAsMilliseconds(v) ==
    LET ps == Split(v, ".")
        d0 == IF Len(ps) > 1 /\ Atoi(ps[2]).err.nil THEN Atoi(ps[2]).v * Millisecond ELSE 0
        hs == Split(ps[1], ":")
        add(n, unit) == IF Atoi(hs[n]).err.nil THEN Atoi(hs[n]).v * unit ELSE 0
    IN  IF Len(hs) >= 3 THEN d0 + add(1, Hour) + add(2, Minute) + add(3, Second) ELSE d0

\* case "time": the duration of the value v
ParseTime(v) ==
    LET ps == Split(v, ".")
        d0 == IF Len(ps) > 1 /\ Atoi(ps[2]).err.nil THEN Atoi(ps[2]).v * 10 * Millisecond ELSE 0
        hs == Split(ps[1], ":")
        add(n, unit) == IF Atoi(hs[n]).err.nil THEN Atoi(hs[n]).v * unit ELSE 0
    IN  IF Len(hs) >= 3 THEN d0 + add(1, Hour) + add(2, Minute) + add(3, Second) ELSE d0

\* the switch on the key k for the value v (lines 77-129); panic when
\* numberFromString panics
ParseValue(k, v, r) ==
    CASE Str(k) = "bitrate" ->
            Let(ParseFloat(TrimSuffix(v, KbitsPerSecond), FALSE), LAMBDA p :
                [panic |-> FALSE,
                 r |-> IF p.err.nil THEN [r EXCEPT !.Bitrate = <<Normalize(Times(p.f, 0, 3))>>] ELSE r])
      [] Str(k) = "frame" ->
            Let(Atoi(v), LAMBDA p :
                [panic |-> FALSE, r |-> IF p.err.nil THEN [r EXCEPT !.Frame = <<p.v>>] ELSE r])
      [] Str(k) = "fps" ->
            Let(ParseFloat(v, FALSE), LAMBDA p :
                [panic |-> FALSE,
                 r |-> IF p.err.nil THEN [r EXCEPT !.FPS = <<IntOfFloat(p.f)>>] ELSE r])
      [] Str(k) = "q" ->
            Let(ParseFloat(v, FALSE), LAMBDA p :
                [panic |-> FALSE, r |-> IF p.err.nil THEN [r EXCEPT !.Q = <<Normalize(p.f)>>] ELSE r])
      [] Str(k) = "size" ->
            Let(numberFromString(v, FALSE), LAMBDA n :
                IF n.panic THEN [panic |-> TRUE, r |-> r]
                ELSE [panic |-> FALSE,
                      r |-> IF n.err.nil
                            THEN [r EXCEPT !.Size = <<IntOfFloat(Number_float64(n.n))>>] ELSE r])
      [] Str(k) = "speed" ->
            Let(ParseFloat(TrimSuffix(v, <<"x">>), FALSE), LAMBDA p :
                [panic |-> FALSE,
                 r |-> IF p.err.nil THEN [r EXCEPT !.Speed = <<Normalize(p.f)>>] ELSE r])
      [] Str(k) = "time" -> [panic |-> FALSE, r |-> [r EXCEPT !.Time = <<ParseTime(v)>>]]
      [] OTHER -> [panic |-> FALSE, r |-> r]

RECURSIVE ParsePieces(_, _, _, _)
\* the loop over the pieces between "=" from the zero-based index idx on,
\* with the pending key k and the results r so far (lines 70-138)
ParsePieces(pieces, idx, k, r) ==
    IF idx >= Len(pieces) THEN [panic |-> FALSE, r |-> r]
    ELSE LET items == Split(TrimSpace(pieces[idx + 1]), " ")
             k2 == IF Len(items) > 1 /\ Len(items[2]) > 0 THEN items[2]
                   ELSE IF Len(items) = 1 /\ idx = 0 THEN items[1]
                   ELSE k
         IN  IF Len(items[1]) > 0 /\ Len(k) > 0
             THEN Let(ParseValue(k, items[1], r), LAMBDA p :
                      IF p.panic THEN p ELSE ParsePieces(pieces, idx + 1, k2, p.r))
             ELSE ParsePieces(pieces, idx + 1, k2, r)

\* defaultStdErrParser.parseResults(b): the results, or a panic
parseResults(b) == ParsePieces(Split(b, "="), 0, <<>>, DefaultStdErrResultsZero)

\* Process decoding the last segment, the one no carriage return has ended
Process_lastSegment(b) ==
    LET lines == Split(b, "\n")
        items == Split(lines[Len(lines)], "\r")
    IN  IF Len(lines) = 0 \/ Len(items) < 2 THEN [panic |-> FALSE, fn |-> <<>>]
        ELSE Let(parseResults(items[Len(items)]), LAMBDA p :
                 IF p.panic THEN [panic |-> TRUE, fn |-> <<>>]
                 ELSE [panic |-> FALSE, fn |-> <<p.r>>])

\* defaultStdErrParser.Process(t, b) on the bytes of b: the samples the
\* callback p.fn is called with, in order, or a panic
Process(b) ==
    LET lines == Split(b, "\n")
        items == Split(lines[Len(lines)], "\r")
    IN  IF Len(lines) = 0 \/ Len(items) < 2 THEN [panic |-> FALSE, fn |-> <<>>]
        ELSE Let(parseResults(items[Len(items) - 1]), LAMBDA p :
                 IF p.panic THEN [panic |-> TRUE, fn |-> <<>>]
                 ELSE [panic |-> FALSE, fn |-> <<p.r>>])

(***************************************************************************)
(* Direct calls of parseResults on progress records, as                    *)
(* TestDefaultStdErrParser makes them.  A record is written as its pairs:  *)
(* the key, the spaces after "=", the value and the spaces after the       *)
(* value.                                                                  *)
(***************************************************************************)
\* the most pairs of a record
MaxPairs == 2

\* []byte(s) for the keys and values of the records
Bytes ==
    ("frame" :> <<"f", "r", "a", "m", "e">>) @@
    ("fps" :> <<"f", "p", "s">>) @@
    ("q" :> <<"q">>) @@
    ("size" :> <<"s", "i", "z", "e">>) @@
    ("time" :> <<"t", "i", "m", "e">>) @@
    ("bitrate" :> <<"b", "i", "t", "r", "a", "t", "e">>) @@
    ("speed" :> <<"s", "p", "e", "e", "d">>) @@
    ("dup" :> <<"d", "u", "p">>) @@
    ("17" :> <<"1", "7">>) @@
    ("2.5" :> <<"2", ".", "5">>) @@
    ("31.0" :> <<"3", "1", ".", "0">>) @@
    ("1kB" :> <<"1", "k", "B">>) @@
    ("2MiB" :> <<"2", "M", "i", "B">>) @@
    ("00:11:38.14" :> <<"0", "0", ":", "1", "1", ":", "3", "8", ".", "1", "4">>) @@
    ("20.5kbits/s" :> <<"2", "0", ".", "5", "k", "b", "i", "t", "s", "/", "s">>) @@
    ("1.2x" :> <<"1", ".", "2", "x">>) @@
    ("0" :> <<"0">>) @@
    ("N/A" :> <<"N", "/", "A">>) @@
    ("iB" :> <<"i", "B">>)

KnownKeys == {"frame", "fps", "q", "size", "time", "bitrate", "speed"}

\* the values ffmpeg writes for a key
WellFormedValues(k) ==
    CASE k = "frame" -> {"17"}
      [] k = "fps" -> {"2.5"}
      [] k = "q" -> {"31.0"}
      [] k = "size" -> {"1kB", "2MiB"}
      [] k = "time" -> {"00:11:38.14"}
      [] k = "bitrate" -> {"20.5kbits/s"}
      [] k = "speed" -> {"1.2x"}
      [] OTHER -> {"0"}

\* values that are not a number, a shorthand or a time
MalformedValues(k) ==
    CASE k = "size" -> {"N/A", "iB"}
      [] k \in KnownKeys -> {"N/A"}
      [] OTHER -> {}

PairSet ==
    UNION {[key : {k}, pre : {<<>>, <<" ", " ">>},
            value : WellFormedValues(k) \cup MalformedValues(k),
            post : {<<" ">>, <<" ", " ">>}] : k \in KnownKeys \cup {"dup"}}

RECURSIVE RecordBytes(_)
\* the bytes of the record: for each pair key "=" pre value post
RecordBytes(pairs) ==
    IF pairs = <<>> THEN <<>>
    ELSE LET h == Head(pairs)
         IN  Bytes[h.key] \o <<"=">> \o h.pre \o Bytes[h.value] \o h.post
                \o RecordBytes(Tail(pairs))

InitResults ==
    /\ ExecIdle
    /\ pc = "call"
    /\ \E n \in 0..MaxPairs : \E pairs \in [1..n -> PairSet] :
          call = [fn |-> "parseResults", arg |-> pairs]
    /\ cmd = EmptyCmd
    /\ err = NilErr
    /\ ret = <<>>

CallParseResults ==
    /\ pc = "call"
    /\ call.fn = "parseResults"
    /\ \E p \in {parseResults(RecordBytes(call.arg))} :
          /\ pc' = IF p.panic THEN "panic" ELSE "done"
          /\ ret' = IF p.panic THEN <<>> ELSE <<p.r>>
    /\ UNCHANGED <<call, cmd, err>>
    /\ UNCHANGED execVars

NextResults == CallParseResults

SpecResults == InitResults /\ [][NextResults]_vars

(***************************************************************************)
(* Properties of parseResults                                              *)
(***************************************************************************)
\* the field of DefaultStdErrResults a known key is decoded into
FieldOf ==
    [k \in KnownKeys |->
        CASE k = "frame" -> "Frame" [] k = "fps" -> "FPS" [] k = "q" -> "Q"
          [] k = "size" -> "Size" [] k = "time" -> "Time" [] k = "bitrate" -> "Bitrate"
          [] k = "speed" -> "Speed"]

\* what each well-formed value stands for: frame as int, fps truncated, q
\* as float, size in bits, bitrate in bits per second, speed as float, time
\* in milliseconds
Decoded ==
    [k \in KnownKeys |->
        CASE k = "frame" -> ("17" :> 17)
          [] k = "fps" -> ("2.5" :> 2)
          [] k = "q" -> ("31.0" :> Normalize(Float(31, 0)))
          [] k = "size" -> ("1kB" :> 8000) @@ ("2MiB" :> 16777216)
          [] k = "time" -> ("00:11:38.14" :> 698140)
          [] k = "bitrate" -> ("20.5kbits/s" :> Normalize(Float(20500, 0)))
          [] k = "speed" -> ("1.2x" :> Normalize(Float(12, 1)))]

\* one space separates each value from the next key
SingleSpaced(pairs) == \A n \in 1..(Len(pairs) - 1) : pairs[n].post = <<" ">>

\* no known key is used twice
KeysOnce(pairs) ==
    \A m, n \in 1..Len(pairs) : (m # n /\ pairs[m].key \in KnownKeys) => pairs[m].key # pairs[n].key

\* the results in which exactly the fields of the pairs with a well-formed
\* value of a known key are set, to what the value stands for
ExpectedResults(pairs) ==
    [f \in DOMAIN DefaultStdErrResultsZero |->
        LET ns == {n \in 1..Len(pairs) :
                      /\ pairs[n].key \in KnownKeys
                      /\ FieldOf[pairs[n].key] = f
                      /\ pairs[n].value \in WellFormedValues(pairs[n].key)}
        IN  IF ns = {} THEN <<>>
            ELSE LET n == CHOOSE x \in ns : TRUE IN <<Decoded[pairs[n].key][pairs[n].value]>>]

ParseResultsEnded == call.fn = "parseResults" /\ pc # "call"

\* C14: for every record of key=value tokens separated by single spaces
\* (spaces allowed after "=") that uses each known key at most once with a
\* well-formed value, parseResults sets exactly the fields whose keys
\* appear, each to what its value stands for, and no other field
C14_WellFormedRecord ==
    (/\ ParseResultsEnded
     /\ SingleSpaced(call.arg) /\ KeysOnce(call.arg)
     /\ \A n \in 1..Len(call.arg) : call.arg[n].value \in WellFormedValues(call.arg[n].key)) =>
        /\ pc = "done"
        /\ ret = <<ExpectedResults(call.arg)>>

\* "size=  1kB time=00:11:38.14 " was parsed: Size is 8000 bits, Time is
\* 698140 ms, the other fields are unset
C14_Witness ==
    /\ pc = "done"
    /\ call.arg = <<[key |-> "size", pre |-> <<" ", " ">>, value |-> "1kB", post |-> <<" ">>],
                    [key |-> "time", pre |-> <<>>, value |-> "00:11:38.14", post |-> <<" ">>]>>
    /\ ret = <<[DefaultStdErrResultsZero EXCEPT !.Size = <<8000>>, !.Time = <<698140>>]>>

\* C17: for every known key and every record in which the value of that
\* key does not parse, parseResults returns and leaves the field of the key
\* unset, and the fields of the other keys are decoded as usual
C17_MalformedValueLeavesFieldUnset ==
    (ParseResultsEnded /\ SingleSpaced(call.arg) /\ KeysOnce(call.arg)) =>
        /\ pc = "done"
        /\ ret = <<ExpectedResults(call.arg)>>

RECURSIVE DecodePairs(_, _)
\* the results when the value of each pair is decoded under the key of the
\* pair, in order
DecodePairs(pairs, r) ==
    IF pairs = <<>> THEN r
    ELSE DecodePairs(Tail(pairs), ParseValue(Bytes[Head(pairs).key], Bytes[Head(pairs).value], r).r)

\* C20: the first token after an "=" is decoded as the value of the key
\* before that "=", whatever white space separates a value from the next
\* key: no value is decoded under another key
C20_ValueUnderItsOwnKey ==
    (call.fn = "parseResults" /\ pc = "done") =>
        ret = <<DecodePairs(call.arg, DefaultStdErrResultsZero)>>

(***************************************************************************)
(* Calls of Process on the stderr buffer while the process appends to it:  *)
(* what the goroutine of Exec does on each tick, with the buffer as the    *)
(* chunks appended so far, each chunk a sequence of bytes                  *)
(***************************************************************************)
\* two completed progress records, each ended by a carriage return
RecordFrame == <<"f", "r", "a", "m", "e", "=", "1", "7", " ", "\r">>

RecordFPS == <<"f", "p", "s", "=", "2", ".", "5", " ", "\r">>

\* a completed record whose size is only the suffixes of a shorthand
RecordSizeSuffix == <<"s", "i", "z", "e", "=", "i", "B", " ", "\r">>

\* the beginning of a record that is not completed yet
RecordBegun == <<"f", "r", "a">>

\* the end of a line
LineFeed == <<"\n">>

ProgressRecords == {RecordFrame, RecordFPS, RecordSizeSuffix}

\* what the process appends to its stderr in one write
StderrWrites == ProgressRecords \cup {RecordBegun, LineFeed}

RECURSIVE Flatten(_)
\* b.Bytes(): the bytes of the chunks, in order
Flatten(chunks) == IF chunks = <<>> THEN <<>> ELSE Head(chunks) \o Flatten(Tail(chunks))

InitProcess ==
    /\ ExecIdle
    /\ pc = "call"
    /\ call = [fn |-> "Process", arg |-> <<>>]
    /\ cmd = EmptyCmd
    /\ err = NilErr
    /\ ret = <<>>

\* the process appends a chunk to the buffer
StderrAppend ==
    /\ pc = "call"
    /\ call.fn = "Process"
    /\ Len(bufErr) < MaxWrites
    /\ \E chunk \in StderrWrites : bufErr' = Append(bufErr, chunk)
    /\ UNCHANGED <<pc, call, cmd, err, ret, inputIdx, proc, pipe, ticker, task, ctxDone>>

\* a tick whose call remembers the sample of the tick before and does not
\* deliver it a second time
CallProcess_deduplicate ==
    /\ pc = "call"
    /\ call.fn = "Process"
    /\ Len(ret) < MaxTicks
    /\ \E p \in {Process(Flatten(bufErr))} :
          /\ pc' = IF p.panic THEN "panic" ELSE "call"
          /\ ret' = Append(ret, [seen |-> bufErr,
                                 fn |-> IF ret # <<>> /\ ret[Len(ret)].fn = p.fn
                                        THEN <<>> ELSE p.fn])
    /\ UNCHANGED <<call, cmd, err, inputIdx, proc, pipe, bufErr, ticker, task, ctxDone>>

\* a tick: Process is called with the buffer; ret records the buffer it
\* was given and the samples the callback was called with.  A panic in the
\* goroutine ends the program.
CallProcess ==
    /\ pc = "call"
    /\ call.fn = "Process"
    /\ Len(ret) < MaxTicks
    /\ \E p \in {Process(Flatten(bufErr))} :
          /\ pc' = IF p.panic THEN "panic" ELSE "call"
          /\ ret' = Append(ret, [seen |-> bufErr, fn |-> p.fn])
    /\ UNCHANGED <<call, cmd, err, inputIdx, proc, pipe, bufErr, ticker, task, ctxDone>>

NextProcess == StderrAppend \/ CallProcess

SpecProcess == InitProcess /\ [][NextProcess]_vars

\* the positions of byte c in b
IndexesOf(b, c) == {i \in 1..Len(b) : b[i] = c}

\* the greatest position of a set of positions, 0 when there is none
LastIndex(S) == IF S = {} THEN 0 ELSE CHOOSE i \in S : \A j \in S : j <= i

\* the text of b after its last line feed, all of b when it has none
AfterLastLF(b) == SubSeq(b, LastIndex(IndexesOf(b, "\n")) + 1, Len(b))

\* the segment of b that its last carriage return ends: from the byte
\* after the carriage return before it, or from the first byte
SegmentBeforeLastCR(b) ==
    LET last == LastIndex(IndexesOf(b, "\r"))
        prev == LastIndex({i \in IndexesOf(b, "\r") : i < last})
    IN  SubSeq(b, prev + 1, last - 1)

\* C15: a call of Process invokes the callback exactly once, with the sample
\* decoded from the second-to-last CR-delimited segment, when the text after
\* the last line feed of the buffer holds a carriage return, and zero times
\* otherwise
C15_OneCallbackPerCarriageReturn ==
    \A i \in 1..Len(ret) :
        (call.fn = "Process") =>
            LET tail == AfterLastLF(Flatten(ret[i].seen))
            IN  IF IndexesOf(tail, "\r") = {}
                THEN ret[i].fn = <<>>
                ELSE ret[i].fn = <<parseResults(SegmentBeforeLastCR(tail)).r>>

\* the record of b completed last: the bytes that the last carriage return
\* of b ends, from the byte after the carriage return or line feed before it
LastCompletedRecord(b) ==
    LET last == LastIndex(IndexesOf(b, "\r"))
        prev == LastIndex({i \in IndexesOf(b, "\r") \cup IndexesOf(b, "\n") : i < last})
    IN  SubSeq(b, prev + 1, last - 1)

CompletedRecords(b) == Cardinality(IndexesOf(b, "\r"))

\* C19: each tick delivers at most one record, and when the process
\* completes no new record between two consecutive ticks, the second tick
\* delivers again the record that the first one delivered
C19_SameRecordAgain ==
    (call.fn = "Process") =>
        /\ \A i \in 1..Len(ret) : Len(ret[i].fn) <= 1
        /\ \A i \in 1..(Len(ret) - 1) :
              (/\ ret[i].fn # <<>>
               /\ CompletedRecords(Flatten(ret[i + 1].seen))
                      = CompletedRecords(Flatten(ret[i].seen)))
                  => ret[i + 1].fn = ret[i].fn

\* C19 as the code has it: each tick delivers at most one record, two ticks
\* given the same bytes deliver the same, and when the process appends
\* neither a carriage return nor a line feed between two consecutive ticks,
\* the second tick delivers what the first one delivered
C19_SameRecordOnSameLine ==
    (call.fn = "Process") =>
        /\ \A i \in 1..Len(ret) : Len(ret[i].fn) <= 1
        /\ \A i, j \in 1..Len(ret) :
              Flatten(ret[i].seen) = Flatten(ret[j].seen) => ret[i].fn = ret[j].fn
        /\ \A i \in 1..(Len(ret) - 1) :
              (/\ CompletedRecords(Flatten(ret[i + 1].seen))
                      = CompletedRecords(Flatten(ret[i].seen))
               /\ IndexesOf(Flatten(ret[i + 1].seen), "\n")
                      = IndexesOf(Flatten(ret[i].seen), "\n"))
                  => ret[i + 1].fn = ret[i].fn

\* two ticks on the same buffer, both given the record completed in it
C19_Witness ==
    /\ call.fn = "Process"
    /\ Len(ret) = 2
    /\ ret[1] = [seen |-> <<RecordFPS>>, fn |-> <<[DefaultStdErrResultsZero EXCEPT !.FPS = <<2>>]>>]
    /\ ret[2] = ret[1]

====
